---- MODULE Spec2Model ----
(***************************************************************************)
(* Frame-resource lifecycle and synchronization of the Ash renderer        *)
(* (src/src/renderer/renderer.rs).  The CPU thread that drives             *)
(* render_frame / request_swapchain_resize is one process whose position   *)
(* is pc; the GPU is the only concurrent actor and completes submissions   *)
(* asynchronously.  render_frame is cut exactly at the points where the    *)
(* code and the GPU can interleave (blocking waits, buffer writes,         *)
(* submission, presentation).                                              *)
(***************************************************************************)
EXTENDS Integers, Sequences, FiniteSets, TLC

(* ------------------------------ bounds --------------------------------- *)
MaxImages == 3
MaxWorkers == 2
MaxCalls == 4
MaxRequests == 2
MaxFaults == 1
MaxDim == 1
MaxCount == 4
MaxFrameIndex == 7
MaxHandle == 1
MaxCommands == 2
MaxTextureSets == 2
MaxMeshOps == 2
MaxResources == 3
MaxAdds == 5
MaxViews == 2
MaxRebuilds == 2
MaxNextFrames == 3
MaxSaves == 2
MaxDefers == 6
MaxTextureSlots == 1

(* ------------------------- program constants --------------------------- *)
HeadlessFrameCount == 2
NullHandle == 0
DefaultTextureSet == 0

VARIABLES
    swapchain,                \* Renderer.swapchain: handle, NullHandle = None (headless)
    swapchain_extent,         \* swapchain.extent
    swapchain_images,         \* Len of swapchain.images (0 when headless)
    worker_count,             \* Renderer.worker_count
    frame_syncs,              \* Renderer.frame_syncs: <<[in_flight, epoch, image_available, render_finished]>>
    frame_sync_ids,           \* Renderer.frame_sync_ids (epoch of the registered slot)
    command_buffers,          \* Len of Renderer.command_buffers
    uniform_buffers,          \* Len of Renderer.uniform_buffers
    framebuffers,             \* Len of Renderer.framebuffers
    frame_sets,               \* Len of DescriptorManager.frame_sets
    shadow_sets,              \* Len of DescriptorManager.shadow_sets
    material_buffers,         \* Len of Renderer.material_buffers
    material_sets,            \* Len of DescriptorManager.material_sets
    draw_items,               \* Renderer.draw_items (mesh keys)
    current_frame,            \* Renderer.current_frame
    resize_pending,           \* Renderer.resize_pending
    pending_extent,           \* Renderer.pending_extent (always Some)
    old_swapchain_handles,    \* Renderer.old_swapchain_handles
    swapchain_cleanup_pending,\* Renderer.swapchain_cleanup_pending
    destroyed_swapchains,     \* handles passed to destroy_swapchain_handle
    next_handle,              \* next fresh swapchain handle
    epoch,                    \* number of frame-sync generations created
    gpu,                      \* submissions the GPU has not completed yet
    pc,                       \* position of the CPU thread
    frame_index,              \* render_frame local
    image_index,              \* render_frame local
    image_acquired,           \* render_frame local
    calls,                    \* render_frame calls begun while Clean
    requests,                 \* request_swapchain_resize calls by the host
    faults,                   \* device errors / surface invalidations met
    result,                   \* Result of the last finished render_frame
    outcome,                  \* which return statement ended it
    prior_outcome,            \* outcome of the call before the one waiting to rebuild
    submitted,                \* the running/last call made a queue submission
    presented,                \* the running/last call issued a present
    fence_waited,             \* the running/last call waited on a frame fence
    rebuilt,                  \* rebuild status of the running/last call
    rebuild_log,              \* steps the last rebuild attempted, in order
    pre_rebuild,              \* [current_frame, slots] before the last rebuild
    safe_swapchains,          \* deferred handles that saw a safe point since
    arg_worker_count,         \* validate_worker_resources / compute_worker_index input
    arg_descriptor_count,     \* validate_worker_resources input
    arg_buffer_count,         \* validate_worker_resources input
    arg_frame_index,          \* compute_worker_index input
    validation,               \* Result of validate_worker_resources ("none" before the call)
    worker_index,             \* value of compute_worker_index (-1 before the call)
    mesh,                         \* Renderer.mesh: {} = None, {key} = Some
    mesh_registry,                \* Renderer.mesh_registry: handle -> key
    mesh_texture_sets,            \* Renderer.mesh_texture_sets: key -> descriptor set
    mesh_texture_flags,           \* Renderer.mesh_texture_flags: key -> slots with a texture
    uploaded,                     \* keys ModelRenderer holds uploaded data for
    texture_sets_allocated,       \* material-texture sets taken from the static pool
    last_op,                      \* the last mesh operation and its Result
    hazard_writes,                \* sets the last operation wrote while the GPU used them
    mesh_ops,                     \* mesh operations the host has made
    material_registry,            \* Renderer.material_registry (its handles)
    submitted_commands,           \* argument of the last submit_render_commands call
    bindless,                     \* BindlessManager: "unbuilt", "built" or "failed"
    max_resources,                \* BindlessManager.max_resources
    next_index,                   \* BindlessManager.next_index
    bindless_slots,               \* descriptor array slots written: [binding, index]
    returned,                     \* indices the add_* calls returned, in call order
    last_add,                     \* the last add_* call: [op, res]
    adds,                         \* add_* calls made
    resource_registry,            \* ResourceRegistry: records, next id, destroy calls, managed
    resource_ids,                 \* ResourceIds the renderer holds
    resource_objects,             \* registered objects the renderer holds by value
    cleanup_log,                  \* cleanup_resource calls of the last rebuild
    registry_op,                  \* the last registry operation and its Result
    registry_rebuilds,            \* rebuilds run against the registry
    dynamic_sets,                 \* DescriptorManager.dynamic_sets (its keys)
    static_sets_allocated,        \* sets the allocator's static pool has handed out
    frame_cycle,                  \* the allocator's frame-cycle marker
    handed_out,                   \* set handle -> the allocate_* call that returned it
    last_bind,                    \* the last bind_material_textures call
    next_frames,                  \* next_frame calls made
    cache,                        \* PipelineCache.cache: "none", "live", "destroyed", "failed"
    cache_file,                   \* PipelineCache.cache_file: {} = None
    disk,                         \* the cache file on disk
    initial_data,                 \* the data the cache was created from
    cache_destroys,               \* destroy_pipeline_cache calls
    cache_log,                    \* log lines of the pipeline cache
    saves,                        \* explicit save() calls and their last Result
    defer_op,                     \* the last defer/flush call: [op, handle, count]
    shutdown_log,                 \* the steps of Drop for Renderer, in the order they ran
    request_batch                 \* request_swapchain_resize calls since the last render_frame: <<[extent, waited]>>

deviceVars == <<swapchain, swapchain_extent, swapchain_images, worker_count, frame_syncs, frame_sync_ids,
                command_buffers, uniform_buffers, framebuffers, frame_sets, shadow_sets,
                material_buffers, material_sets, draw_items, current_frame, epoch>>
resizeVars == <<resize_pending, pending_extent>>
deferVars == <<old_swapchain_handles, swapchain_cleanup_pending, destroyed_swapchains,
               next_handle, safe_swapchains>>
callVars == <<pc, frame_index, image_index, image_acquired, calls, result, outcome,
              prior_outcome, submitted, presented, fence_waited, rebuilt, rebuild_log, pre_rebuild>>
envVars == <<requests, faults>>
rendererVars == <<deviceVars, resizeVars, deferVars, callVars, envVars, gpu>>
workerVars == <<arg_worker_count, arg_descriptor_count, arg_buffer_count, arg_frame_index,
                validation, worker_index>>
meshVars == <<mesh, mesh_registry, mesh_texture_sets, mesh_texture_flags, uploaded, texture_sets_allocated,
              last_op, hazard_writes, mesh_ops, material_registry, submitted_commands>>
bindlessVars == <<bindless, max_resources, next_index, bindless_slots, returned, last_add,
                  adds>>
registryVars == <<resource_registry, resource_ids, resource_objects, cleanup_log,
                  registry_op, registry_rebuilds>>
descriptorVars == <<dynamic_sets, static_sets_allocated, frame_cycle, handed_out, last_bind,
                    next_frames>>
cacheVars == <<cache, cache_file, disk, initial_data, cache_destroys, cache_log, saves>>
deferOpVars == <<defer_op>>
shutdownVars == <<shutdown_log>>
requestVars == <<request_batch>>
auxVars == <<workerVars, meshVars, bindlessVars, registryVars, descriptorVars, cacheVars,
             deferOpVars, shutdownVars, requestVars>>
auxVarsButRequests == <<workerVars, meshVars, bindlessVars, registryVars, descriptorVars,
                        cacheVars, deferOpVars, shutdownVars>>
vars == <<rendererVars, auxVars>>

(* ------------------------------ helpers -------------------------------- *)
Extents == [width : {0, MaxDim}, height : {0, MaxDim}]

ZeroArea(extent) == extent.width = 0 \/ extent.height = 0

ImageCounts == {2, MaxImages}

WorkerCounts == {1, MaxWorkers}

NewSlot(e) ==
    [in_flight |-> TRUE, epoch |-> e, image_available |-> "unsignaled",
     render_finished |-> "unsignaled"]

(* A signal operation queued on a binary semaphore. *)
SignalSemaphore(sem) == IF sem = "unsignaled" THEN "signaled" ELSE "resignaled"

(* A wait operation queued on a binary semaphore. *)
WaitSemaphore(sem) ==
    IF sem = "signaled" THEN "unsignaled"
    ELSE IF sem = "unsignaled" THEN "waited_unsignaled" ELSE sem

(* The rest of deviceVars when an action changes frame_syncs. *)
deviceVarsButSyncs ==
    <<swapchain, swapchain_extent, swapchain_images, worker_count, frame_sync_ids,
      command_buffers, uniform_buffers, framebuffers, frame_sets, shadow_sets,
      material_buffers, material_sets, draw_items, current_frame, epoch>>

Slots(n, e) == [i \in 1..n |-> NewSlot(e)]

Ids(n, e) == [i \in 1..n |-> e]

RangeOf(s) == {s[i] : i \in 1..Len(s)}

(* A modulus that is one too large. *)
compute_worker_index_off_by_one(wc, fi) == IF wc = 0 THEN 0 ELSE fi % (wc + 1)

compute_worker_index(wc, fi) == IF wc = 0 THEN 0 ELSE fi % wc

(* A validation that forgets the buffer count. *)
validate_descriptors_only(wc, dc, bc) ==
    IF wc = 0 THEN "ok" ELSE IF dc # wc THEN "err" ELSE "ok"

validate_worker_resources(wc, dc, bc) ==
    IF wc = 0 THEN "ok"
    ELSE IF dc # wc THEN "err"
    ELSE IF bc # wc THEN "err"
    ELSE "ok"

(* The worker index taken modulo the frame slot count. *)
worker_index_by_slot_count(fi) == compute_worker_index(Len(frame_syncs), fi)

worker_index_for_frame(fi) == compute_worker_index(worker_count, fi)

(* A fence wait that returns without the fence being signaled. *)
FenceWaitIgnored(sync) == TRUE

(* wait_for_fences with timeout u64::MAX returns once the fence is signaled. *)
FenceWaitReturns(sync) == sync.in_flight

(* FrameSync::wait: an unbounded blocking wait on the slot's completion fence. *)
FrameSyncWait(sync) == sync.in_flight

wait_for_inflight_frames == \A i \in 1..Len(frame_syncs) : FrameSyncWait(frame_syncs[i])

DeviceIdle == gpu = {}

(* request_swapchain_resize waits for device idle only when no resize is pending. *)
(* A request that waits for device idle whether or not a resize is pending. *)
request_waits_always(pending) == TRUE

(* `if !self.resize_pending { .. device_wait_idle() .. }` *)
request_waits_idle(pending) == ~pending

RequestMayReturn == request_waits_idle(resize_pending) => DeviceIdle

(* ------------------- deferred swapchain destruction -------------------- *)
(* A deferral that raises the cleanup flag before looking at the handle. *)
defer_old_swapchain_flag_first(old, pending, handle) ==
    IF handle = NullHandle
    THEN [old |-> old, pending |-> TRUE]
    ELSE [old |-> Append(old, handle), pending |-> TRUE]

defer_old_swapchain(old, pending, handle) ==
    IF handle = NullHandle
    THEN [old |-> old, pending |-> pending]
    ELSE [old |-> Append(old, handle), pending |-> TRUE]

(* A flush that walks the list without draining it. *)
flush_old_swapchains_keeping(old, destroyed, sc) ==
    IF old = <<>>
    THEN [old |-> old, pending |-> FALSE, destroyed |-> destroyed]
    ELSE IF sc # NullHandle
         THEN [old |-> old, pending |-> FALSE, destroyed |-> destroyed \cup RangeOf(old)]
         ELSE [old |-> <<>>, pending |-> FALSE, destroyed |-> destroyed]

flush_old_swapchains(old, destroyed, sc) ==
    IF old = <<>>
    THEN [old |-> old, pending |-> FALSE, destroyed |-> destroyed]
    ELSE IF sc # NullHandle
         THEN [old |-> <<>>, pending |-> FALSE, destroyed |-> destroyed \cup RangeOf(old)]
         ELSE [old |-> <<>>, pending |-> FALSE, destroyed |-> destroyed]

(* render_frame flushes at its top and after a successful present only when
   the cleanup flag is set. *)
FlushIfPending(old, pending, destroyed, sc) ==
    IF pending
    THEN flush_old_swapchains(old, destroyed, sc)
    ELSE [old |-> old, pending |-> pending, destroyed |-> destroyed]

(* ------------------------- swapchain rebuild --------------------------- *)
(* The frame syncs rebuilt after the uniform buffers and descriptor bindings. *)
RebuildStepsSyncsLast ==
    << "swapchain", "teardown", "image_views", "depth_buffer", "render_pass",
       "framebuffers", "command_buffers", "uniform_buffers", "descriptor_sets",
       "frame_syncs" >>

(* recreate_swapchain_resources, flattened to its calls in program order. *)
RebuildSteps ==
    << "swapchain", "teardown", "image_views", "depth_buffer", "render_pass",
       "framebuffers", "frame_syncs", "command_buffers", "uniform_buffers",
       "descriptor_sets" >>

(* Every step but the teardown ends in `?`. *)
FallibleSteps == RangeOf(RebuildSteps) \ {"teardown"}

(* swapchain.recreate and the deferral of the handle it supersedes. *)
recreate_swapchain(st, n, ext) ==
    LET d == defer_old_swapchain(st.old, st.pending, st.swapchain)
    IN  [st EXCEPT !.swapchain = st.next_handle,
                   !.next_handle = st.next_handle + 1,
                   !.swapchain_extent = ext,
                   !.image_count = n,
                   !.old = d.old,
                   !.pending = d.pending]

cleanup_framebuffers(st) == [st EXCEPT !.framebuffers = 0]

create_framebuffers(st) == [st EXCEPT !.framebuffers = st.image_count]

(* Frame syncs that keep the slots they have and only grow or shrink. *)
recreate_frame_syncs_partial(st, count) ==
    [st EXCEPT !.frame_syncs = [i \in 1..count |->
                                   IF i <= Len(st.frame_syncs) THEN st.frame_syncs[i]
                                   ELSE NewSlot(st.epoch + 1)],
               !.frame_sync_ids = [i \in 1..count |->
                                      IF i <= Len(st.frame_sync_ids) THEN st.frame_sync_ids[i]
                                      ELSE st.epoch + 1],
               !.epoch = st.epoch + 1,
               !.current_frame = 0]

(* Frame syncs recreated with the slot count they had before the resize. *)
recreate_frame_syncs_stale(st, count) ==
    [st EXCEPT !.frame_syncs = Slots(Len(st.frame_syncs), st.epoch + 1),
               !.frame_sync_ids = Ids(Len(st.frame_syncs), st.epoch + 1),
               !.epoch = st.epoch + 1,
               !.current_frame = 0]

recreate_frame_syncs(st, count) ==
    [st EXCEPT !.frame_syncs = Slots(count, st.epoch + 1),
               !.frame_sync_ids = Ids(count, st.epoch + 1),
               !.epoch = st.epoch + 1,
               !.current_frame = 0]

recreate_command_buffers(st) ==
    [st EXCEPT !.command_buffers = st.framebuffers, !.current_frame = 0]

(* Uniform buffers pushed after the old ones, without the clear(). *)
recreate_uniform_buffers_appending(st, count) ==
    [st EXCEPT !.uniform_buffers = st.uniform_buffers + count]

recreate_uniform_buffers(st, count) == [st EXCEPT !.uniform_buffers = count]

recreate_descriptor_sets(st) == [st EXCEPT !.frame_sets = Len(st.frame_syncs)]

StepSucceeds(s, st, n, ext) ==
    CASE s = "swapchain" -> recreate_swapchain(st, n, ext)
      [] s = "teardown" -> cleanup_framebuffers(st)
      [] s = "framebuffers" -> create_framebuffers(st)
      [] s = "frame_syncs" -> recreate_frame_syncs(st, st.framebuffers)
      [] s = "command_buffers" -> recreate_command_buffers(st)
      [] s = "uniform_buffers" -> recreate_uniform_buffers(st, st.framebuffers)
      [] s = "descriptor_sets" -> recreate_descriptor_sets(st)
      [] OTHER -> st

(* What a step leaves behind when it returns Err part-way; the `?` that
   propagates the error is logged as "Err". *)
StepFails(s, st, partial) ==
    LET failed == [st EXCEPT !.log = Append(st.log, "Err")] IN
    CASE s = "frame_syncs" ->
           [failed EXCEPT !.frame_syncs = <<>>, !.frame_sync_ids = <<>>]
      [] s = "uniform_buffers" ->
           [failed EXCEPT !.uniform_buffers =
                              IF partial < st.framebuffers THEN partial ELSE 0]
      [] OTHER -> failed

RECURSIVE RunSteps(_, _, _, _, _, _)
RunSteps(steps, st, failing, n, ext, partial) ==
    IF steps = <<>>
    THEN [st EXCEPT !.ok = TRUE]
    ELSE LET s == Head(steps)
             logged == [st EXCEPT !.log = Append(st.log, s)]
         IN  IF s = failing
             THEN StepFails(s, logged, partial)
             ELSE RunSteps(Tail(steps), StepSucceeds(s, logged, n, ext), failing, n, ext, partial)

recreate_swapchain_resources(failing, n, ext, partial) ==
    RunSteps(RebuildSteps,
             [swapchain |-> swapchain, swapchain_extent |-> swapchain_extent,
              image_count |-> swapchain_images,
              next_handle |-> next_handle, old |-> old_swapchain_handles,
              pending |-> swapchain_cleanup_pending, framebuffers |-> framebuffers,
              frame_syncs |-> frame_syncs, frame_sync_ids |-> frame_sync_ids,
              epoch |-> epoch, current_frame |-> current_frame,
              command_buffers |-> command_buffers, uniform_buffers |-> uniform_buffers,
              frame_sets |-> frame_sets, log |-> <<>>, ok |-> FALSE],
             failing, n, ext, partial)

(* ------------------------ bindless index counter ----------------------- *)
(* An index counter that wraps to the reserved slot once the table is full. *)
allocate_index_wrapping(next, max) ==
    IF next >= max
    THEN [ok |-> max > 0, index |-> 0, next |-> IF max > 1 THEN 1 ELSE next]
    ELSE [ok |-> TRUE, index |-> next, next |-> next + 1]

(* An index counter that is bumped before the capacity test. *)
allocate_index_bump_first(next, max) ==
    IF next >= max
    THEN [ok |-> FALSE, index |-> 0, next |-> next + 1]
    ELSE [ok |-> TRUE, index |-> next, next |-> next + 1]

(* An index counter that is never advanced by a successful add. *)
allocate_index_no_bump(next, max) ==
    IF next >= max
    THEN [ok |-> FALSE, index |-> 0, next |-> next]
    ELSE [ok |-> TRUE, index |-> next, next |-> IF next = 0 THEN 1 ELSE next]

(* allocate_index: the bump counter. *)
allocate_index(next, max) ==
    IF next >= max
    THEN [ok |-> FALSE, index |-> 0, next |-> next]
    ELSE [ok |-> TRUE, index |-> next, next |-> next + 1]

(* ------------------------- mesh texture sets --------------------------- *)
MeshKeys == {"cube", "mesh"}

MeshHandles == 0..MaxHandle

MaterialHandles == {0, 1}

EmptyMap == [k \in {} |-> 0]

Put(map, k, v) == [x \in DOMAIN map \cup {k} |-> IF x = k THEN v ELSE map[x]]

(* Option<T> as a set with at most one element. *)
Get(map, k) == IF k \in DOMAIN map THEN {map[k]} ELSE {}

(* The static pool hands out a set unless it is exhausted. *)
allocate_static_set(allocated) ==
    IF allocated < MaxTextureSets
    THEN [ok |-> TRUE, set |-> allocated + 1, allocated |-> allocated + 1]
    ELSE [ok |-> FALSE, set |-> DefaultTextureSet, allocated |-> allocated]

(* A prepare_texture_set that reuses whatever set the key owns, the default
   one included. *)
prepare_texture_set_reusing_default(allocated, existing, has_any_texture) ==
    IF has_any_texture
    THEN IF existing # {}
         THEN [ok |-> TRUE, set |-> CHOOSE x \in existing : TRUE, allocated |-> allocated,
               written |-> existing]
         ELSE LET a == allocate_static_set(allocated) IN
              IF a.ok
              THEN [ok |-> TRUE, set |-> a.set, allocated |-> a.allocated,
                    written |-> {a.set}]
              ELSE [ok |-> FALSE, set |-> DefaultTextureSet, allocated |-> allocated,
                    written |-> {}]
    ELSE [ok |-> TRUE, set |-> DefaultTextureSet, allocated |-> allocated, written |-> {}]

(* prepare_texture_set: the set the mesh is to use, the sets it wrote through
   bind_material_textures, and whether the pool was found exhausted. *)
prepare_texture_set(allocated, existing, has_any_texture) ==
    IF has_any_texture
    THEN IF existing # {} /\ existing # {DefaultTextureSet}
         THEN [ok |-> TRUE, set |-> CHOOSE x \in existing : TRUE, allocated |-> allocated,
               written |-> existing]
         ELSE LET a == allocate_static_set(allocated) IN
              IF a.ok
              THEN [ok |-> TRUE, set |-> a.set, allocated |-> a.allocated,
                    written |-> {a.set}]
              ELSE [ok |-> FALSE, set |-> DefaultTextureSet, allocated |-> allocated,
                    written |-> {}]
    ELSE [ok |-> TRUE, set |-> DefaultTextureSet, allocated |-> allocated, written |-> {}]

(* The texture slots of a mesh (base colour, normal, ...), and the presence
   flags as the set of slots that hold a texture of the mesh's own. *)
TextureSlots == 1..MaxTextureSlots

TextureFlagSets == SUBSET TextureSlots

(* `[-1; 5]`: no slot registered with the bindless manager. *)
NotRegistered == [i \in TextureSlots |-> -1]

RendererBindlessCapacity == 1024

(* TextureBindingInfo::from_mesh. *)
from_mesh(flags) == [flags |-> flags, bindless_indices |-> NotRegistered]

RECURSIVE RegisterSlots(_, _, _, _)
(* The loop of register_with_bindless from slot i on. *)
RegisterSlots(i, flags, next, indices) ==
    IF i > MaxTextureSlots
    THEN [ok |-> TRUE, indices |-> indices]
    ELSE IF i \in flags
         THEN LET a == allocate_index(next, RendererBindlessCapacity) IN
              IF a.ok
              THEN RegisterSlots(i + 1, flags, a.next, [indices EXCEPT ![i] = a.index])
              ELSE [ok |-> FALSE, indices |-> indices]
         ELSE RegisterSlots(i + 1, flags, next, [indices EXCEPT ![i] = -1])

(* TextureBindingInfo::register_with_bindless on the manager the constructor
   has just built, whose default texture holds index 0. *)
register_with_bindless(binding) ==
    LET r == RegisterSlots(1, binding.flags,
                           allocate_index(0, RendererBindlessCapacity).next,
                           binding.bindless_indices)
    IN  [ok |-> r.ok, binding |-> [binding EXCEPT !.bindless_indices = r.indices]]

(* The record kept of the last mesh operation: the key and presence flags it
   was given, the set prepare_texture_set returned (none on an error), the
   sets it wrote, and the stage that failed. *)
MeshOp(op, res, key, flags, p, failed) ==
    [op |-> op, res |-> res, exhausted |-> ~p.ok, key |-> key, flags |-> flags,
     prepared |-> IF p.ok THEN {p.set} ELSE {}, written |-> p.written, failed |-> failed]

(* The record of an operation that prepares no texture set. *)
PlainOp(op, res, failed) ==
    [op |-> op, res |-> res, exhausted |-> FALSE, key |-> "none", flags |-> {},
     prepared |-> {}, written |-> {}, failed |-> failed]

(* ----------------------------- Renderer::new --------------------------- *)
RendererInit(headless, n, wc, ext, flags) ==
    LET registered == register_with_bindless(from_mesh(flags))
        initial_binding == registered.binding
        initial == prepare_texture_set(0, {}, initial_binding.flags # {})
    IN
    /\ registered.ok
    /\ initial.ok
    /\ draw_items = << [key |-> "cube", texture_set |-> initial.set,
                         texture_flags |-> initial_binding.flags,
                         bindless_indices |-> initial_binding.bindless_indices] >>
    /\ mesh_texture_sets = Put(EmptyMap, "cube", initial.set)
    /\ mesh_texture_flags = Put(EmptyMap, "cube", initial_binding.flags)
    /\ texture_sets_allocated = initial.allocated
    /\ last_op = MeshOp("new", "ok", "cube", flags, initial, "none")
    /\ LET count == IF headless THEN HeadlessFrameCount ELSE n IN
         /\ swapchain = IF headless THEN NullHandle ELSE 1
         /\ swapchain_images = IF headless THEN 0 ELSE n
         /\ worker_count = wc
         /\ material_buffers = wc
         /\ material_sets = wc
         /\ validate_worker_resources(wc, wc, wc) = "ok"
         /\ frame_syncs = Slots(count, 0)
         /\ frame_sync_ids = Ids(count, 0)
         /\ command_buffers = count
         /\ uniform_buffers = count
         /\ framebuffers = count
         /\ frame_sets = count
         /\ shadow_sets = count
    /\ swapchain_extent = ext
    /\ pending_extent = ext
    /\ mesh = {"cube"}
    /\ mesh_registry = Put(EmptyMap, 0, "cube")
    /\ uploaded = {"cube"}
    /\ hazard_writes = {}
    /\ mesh_ops = 0
    /\ material_registry = {0}
    /\ submitted_commands = <<>>
    /\ current_frame = 0
    /\ resize_pending = FALSE
    /\ old_swapchain_handles = <<>>
    /\ swapchain_cleanup_pending = FALSE
    /\ destroyed_swapchains = {}
    /\ next_handle = 2
    /\ epoch = 0
    /\ gpu = {}
    /\ pc = "idle"
    /\ frame_index = 0
    /\ image_index = 0
    /\ image_acquired = FALSE
    /\ calls = 0
    /\ requests = 0
    /\ faults = 0
    /\ result = "none"
    /\ outcome = "none"
    /\ prior_outcome = "none"
    /\ submitted = FALSE
    /\ presented = FALSE
    /\ fence_waited = FALSE
    /\ rebuilt = "none"
    /\ rebuild_log = <<>>
    /\ pre_rebuild = [current_frame |-> 0, slots |-> 0]
    /\ safe_swapchains = {}

(* The worker helpers have not been called. *)
WorkerIdle ==
    /\ arg_worker_count = 0
    /\ arg_descriptor_count = 0
    /\ arg_buffer_count = 0
    /\ arg_frame_index = 0
    /\ validation = "none"
    /\ worker_index = -1

EmptyRegState ==
    [reg |-> [records |-> EmptyMap, next_id |-> 1, destroy_count |-> EmptyMap,
              managed |-> {}],
     ids |-> [swapchain_image_view_ids |-> <<>>, depth_buffer_id |-> {},
              render_pass_id |-> {}, framebuffer_ids |-> <<>>, frame_sync_ids |-> <<>>],
     objs |-> [depth_buffer |-> {}, render_pass |-> {}, pipeline |-> {}],
     log |-> <<>>, err |-> FALSE, last_id |-> 0, last_ok |-> TRUE]

(* No PipelineCache is under test. *)
(* No request_swapchain_resize since the last render_frame. *)
RequestIdle == request_batch = <<>>

(* The renderer has not been dropped. *)
ShutdownIdle == shutdown_log = <<>>

(* No deferral sequence is under test. *)
DeferIdle == defer_op = [op |-> "new", handle |-> NullHandle, count |-> 0]

CacheIdle ==
    /\ cache = "none"
    /\ cache_file = {}
    /\ disk = "missing"
    /\ initial_data = "empty"
    /\ cache_destroys = 0
    /\ cache_log = <<>>
    /\ saves = [count |-> 0, res |-> "none"]

(* A DescriptorManager as constructed: no texture set allocated yet. *)
DescriptorIdle ==
    /\ dynamic_sets = {}
    /\ static_sets_allocated = 0
    /\ frame_cycle = 0
    /\ handed_out = EmptyMap
    /\ last_bind = [set |-> DefaultTextureSet, handed_out |-> FALSE, res |-> "none",
                    frames |-> 0]
    /\ next_frames = 0

(* No ResourceRegistry is under test. *)
RegistryIdle ==
    /\ resource_registry = EmptyRegState.reg
    /\ resource_ids = EmptyRegState.ids
    /\ resource_objects = EmptyRegState.objs
    /\ cleanup_log = <<>>
    /\ registry_op = [op |-> "none", res |-> "none"]
    /\ registry_rebuilds = 0

(* No BindlessManager is under test. *)
BindlessIdle ==
    /\ bindless = "unbuilt"
    /\ max_resources = 0
    /\ next_index = 0
    /\ bindless_slots = {}
    /\ returned = <<>>
    /\ last_add = [op |-> "none", res |-> "none"]
    /\ adds = 0

Init ==
    /\ BindlessIdle
    /\ DescriptorIdle
    /\ CacheIdle
    /\ DeferIdle
    /\ ShutdownIdle
    /\ RequestIdle
    /\ RegistryIdle
    /\ \E headless \in BOOLEAN, n \in ImageCounts, wc \in WorkerCounts :
         \E ext \in {e \in Extents : ~ZeroArea(e)} : RendererInit(headless, n, wc, ext, {})
    /\ WorkerIdle

(* --------------------------- render_frame ------------------------------ *)
(* No resize request, surface invalidation or error has happened so far. *)
Clean == requests = 0 /\ faults = 0

(* A device error or a surface invalidation is met. *)
Fault ==
    /\ faults < MaxFaults
    /\ faults' = faults + 1
    /\ calls' = 0
    /\ UNCHANGED requests

NoFault == UNCHANGED <<envVars, calls>>

Return(res, out) ==
    /\ pc' = "idle"
    /\ result' = res
    /\ outcome' = out
    /\ UNCHANGED frame_index
    /\ image_index' = 0
    /\ image_acquired' = FALSE

Goto(label) ==
    /\ pc' = label
    /\ UNCHANGED <<result, outcome, frame_index, image_index, image_acquired>>

(* A call is running: no Result yet. *)
Running ==
    /\ result' = "none"
    /\ outcome' = "running"

(* render_frame from the flush at its top to the frame-slot lookup, once
   resize_if_needed has returned Ok with no resize pending. *)
ProceedToFence(sc, old, pending, cf, ncb, nfs) ==
    LET f == FlushIfPending(old, pending, destroyed_swapchains, sc) IN
    /\ old_swapchain_handles' = f.old
    /\ swapchain_cleanup_pending' = f.pending
    /\ destroyed_swapchains' = f.destroyed
    /\ IF cf < ncb /\ cf < nfs
       THEN /\ pc' = "wait_fence"
            /\ frame_index' = cf
            /\ Running
            /\ UNCHANGED <<image_index, image_acquired>>
       ELSE Return("err", "index_out_of_range")

RenderFrameEnter ==
    /\ pc = "idle"
    /\ UNCHANGED auxVarsButRequests
    /\ request_batch' = <<>>
    /\ Clean => calls < MaxCalls
    /\ calls' = IF Clean THEN calls + 1 ELSE 0
    /\ submitted' = FALSE
    /\ presented' = FALSE
    /\ fence_waited' = FALSE
    /\ rebuilt' = "none"
    /\ rebuild_log' = <<>>
    /\ pre_rebuild' = [current_frame |-> 0, slots |-> 0]
    /\ IF resize_pending
       THEN /\ IF ZeroArea(pending_extent)
               THEN Return("ok", "skipped") /\ UNCHANGED prior_outcome
               ELSE /\ pc' = "wait_inflight"
                    /\ Running
                    /\ prior_outcome' = outcome
                    /\ UNCHANGED <<frame_index, image_index, image_acquired>>
            /\ UNCHANGED <<old_swapchain_handles, swapchain_cleanup_pending,
                           destroyed_swapchains>>
       ELSE /\ ProceedToFence(swapchain, old_swapchain_handles, swapchain_cleanup_pending,
                              current_frame, command_buffers, Len(frame_syncs))
            /\ UNCHANGED prior_outcome
    /\ UNCHANGED <<deviceVars, resizeVars, next_handle, safe_swapchains, envVars, gpu>>

(* resize_pending cleared ahead of the rebuild, whatever its result. *)
pending_cleared_first(ok) == FALSE

(* `self.recreate_swapchain_resources()?; self.resize_pending = false;`: the
   flag is cleared only on the path the `?` lets through. *)
pending_after_rebuild(ok) == ~ok

(* resize_if_needed past wait_for_inflight_frames, then on to the fence. *)
ResizeRebuild ==
    /\ pc = "wait_inflight"
    /\ UNCHANGED auxVars
    /\ wait_for_inflight_frames
    /\ fence_waited' = TRUE
    /\ pre_rebuild' = [current_frame |-> current_frame, slots |-> Len(frame_syncs)]
    /\ safe_swapchains' = safe_swapchains \cup RangeOf(old_swapchain_handles)
    /\ IF swapchain = NullHandle
       THEN /\ rebuilt' = "skipped"
            /\ rebuild_log' = <<>>
            /\ resize_pending' = FALSE
            /\ ProceedToFence(swapchain, old_swapchain_handles, swapchain_cleanup_pending,
                              current_frame, command_buffers, Len(frame_syncs))
            /\ NoFault
            /\ UNCHANGED <<deviceVars, pending_extent, next_handle>>
       ELSE \E failing \in FallibleSteps \cup {"none"}, n \in ImageCounts,
               ext \in {e \in Extents : ~ZeroArea(e)} :
            \E partial \in IF failing = "uniform_buffers" THEN 0..(n - 1) ELSE {0} :
              /\ \E st \in {recreate_swapchain_resources(failing, n, ext, partial)} :
                 /\ swapchain' = st.swapchain
                 /\ swapchain_extent' = st.swapchain_extent
                 /\ swapchain_images' = st.image_count
                 /\ next_handle' = st.next_handle
                 /\ framebuffers' = st.framebuffers
                 /\ frame_syncs' = st.frame_syncs
                 /\ frame_sync_ids' = st.frame_sync_ids
                 /\ epoch' = st.epoch
                 /\ current_frame' = st.current_frame
                 /\ command_buffers' = st.command_buffers
                 /\ uniform_buffers' = st.uniform_buffers
                 /\ frame_sets' = st.frame_sets
                 /\ rebuild_log' = st.log
                 /\ IF st.ok
                    THEN /\ rebuilt' = "ok"
                         /\ resize_pending' = pending_after_rebuild(TRUE)
                         /\ pending_extent' = st.swapchain_extent
                         /\ ProceedToFence(st.swapchain, st.old, st.pending, st.current_frame,
                                           st.command_buffers, Len(st.frame_syncs))
                         /\ NoFault
                    ELSE /\ rebuilt' = "failed"
                         /\ old_swapchain_handles' = st.old
                         /\ swapchain_cleanup_pending' = st.pending
                         /\ Return("err", "rebuild_failed")
                         /\ Fault
                         /\ resize_pending' = pending_after_rebuild(FALSE)
                         /\ UNCHANGED <<pending_extent, destroyed_swapchains>>
              /\ UNCHANGED <<worker_count, shadow_sets, material_buffers, material_sets,
                             draw_items>>
    /\ prior_outcome' = "none"
    /\ UNCHANGED <<submitted, presented, gpu>>

(* wait_for_fences + reset_fences on the slot's completion fence, next_frame. *)
WaitFence ==
    /\ pc = "wait_fence"
    /\ UNCHANGED auxVars
    /\ FenceWaitReturns(frame_syncs[frame_index + 1])
    /\ frame_syncs' = [frame_syncs EXCEPT ![frame_index + 1].in_flight = FALSE]
    /\ fence_waited' = TRUE
    /\ safe_swapchains' = safe_swapchains \cup RangeOf(old_swapchain_handles)
    /\ Goto("update_uniform")
    /\ NoFault
    /\ UNCHANGED <<swapchain, swapchain_extent, swapchain_images, worker_count, frame_sync_ids, command_buffers,
                   uniform_buffers, framebuffers, frame_sets, shadow_sets, material_buffers,
                   material_sets,
                   draw_items, current_frame, epoch, resizeVars, old_swapchain_handles,
                   swapchain_cleanup_pending, destroyed_swapchains, next_handle,
                   submitted, presented, rebuilt, rebuild_log, pre_rebuild, gpu,
                   prior_outcome>>

(* The CPU write of uniform_buffers[frame_index] and the command-buffer reset. *)
UpdateUniform ==
    /\ pc = "update_uniform"
    /\ UNCHANGED auxVars
    /\ \/ Goto("acquire") /\ NoFault
       \/ Return("err", "device_error") /\ Fault
    /\ UNCHANGED <<deviceVars, resizeVars, deferVars, submitted, presented, fence_waited,
                   rebuilt, rebuild_log, pre_rebuild, gpu, prior_outcome>>

(* A resize request that records the extent but not the pending flag. *)
request_without_flag(new_extent) ==
    /\ RequestMayReturn
    /\ pending_extent' = new_extent
    /\ UNCHANGED resize_pending

(* request_swapchain_resize: returns once its device-idle wait (issued only
   when no resize is pending yet) is over. *)
request_swapchain_resize(new_extent) ==
    /\ RequestMayReturn
    /\ pending_extent' = new_extent
    /\ resize_pending' = TRUE

(* A headless target that runs one slot ahead of the frame slot. *)
HeadlessTargetAhead == (current_frame + 1) % framebuffers

(* The image index a headless frame targets. *)
HeadlessTarget == current_frame % framebuffers

(* What the surface can report to acquire_next_image and present. *)
SurfaceResults == {"ok", "out_of_date", "error"}

(* A match that treats every acquire failure as a hard error. *)
on_acquire_strict(r) == IF r = "ok" THEN "proceed" ELSE "fail"

(* The match on the Result of acquire_next_image. *)
on_acquire(r) ==
    IF r = "ok" THEN "proceed" ELSE IF r = "out_of_date" THEN "resize" ELSE "fail"

(* The match on the Result of present. *)
on_present(r) ==
    IF r = "ok" THEN "proceed" ELSE IF r = "out_of_date" THEN "resize" ELSE "fail"

AcquireOutcome(r) == IF r = "out_of_date" THEN "acquire_out_of_date" ELSE "acquire_error"

PresentOutcome(r) == IF r = "out_of_date" THEN "present_out_of_date" ELSE "present_error"

(* acquire_next_image, or the headless target. *)
AcquireImage ==
    /\ pc = "acquire"
    /\ UNCHANGED auxVars
    /\ IF swapchain # NullHandle
       THEN \E r \in SurfaceResults :
              /\ IF r = "ok" THEN NoFault ELSE Fault
              /\ IF on_acquire(r) = "proceed"
                 THEN \E index \in 0..(framebuffers - 1) :
                        /\ image_index' = index
                        /\ image_acquired' = TRUE
                        /\ frame_syncs' =
                              [frame_syncs EXCEPT ![frame_index + 1].image_available =
                                                      SignalSemaphore(@)]
                        /\ pc' = "record"
                        /\ UNCHANGED <<result, outcome, frame_index, resizeVars>>
                 ELSE IF on_acquire(r) = "resize"
                      THEN /\ request_swapchain_resize(swapchain_extent)
                           /\ Return("ok", AcquireOutcome(r))
                           /\ UNCHANGED frame_syncs
                      ELSE /\ Return("err", AcquireOutcome(r))
                           /\ UNCHANGED <<resizeVars, frame_syncs>>
       ELSE /\ image_index' = HeadlessTarget
            /\ image_acquired' = FALSE
            /\ pc' = "record"
            /\ NoFault
            /\ UNCHANGED <<result, outcome, frame_index, resizeVars, frame_syncs>>
    /\ UNCHANGED <<deviceVarsButSyncs, deferVars, submitted, presented, fence_waited,
                   rebuilt, rebuild_log, pre_rebuild, gpu, prior_outcome>>

(* Command recording: the framebuffer and descriptor-set lookups, and one CPU
   write of material_buffers[worker_index] per draw item. *)
RecordCommands ==
    /\ pc = "record"
    /\ UNCHANGED auxVars
    /\ IF /\ image_index < framebuffers
          /\ frame_index < frame_sets
          /\ worker_index_for_frame(frame_index) < material_sets
       THEN Goto("submit")
       ELSE Return("err", "index_out_of_range")
    /\ NoFault
    /\ UNCHANGED <<deviceVars, resizeVars, deferVars, submitted, presented, fence_waited,
                   rebuilt, rebuild_log, pre_rebuild, gpu, prior_outcome>>

(* What the GPU reads while the submission of this frame is in flight. *)
Submission ==
    [slot |-> frame_index,
     epoch |-> frame_syncs[frame_index + 1].epoch,
     worker |-> worker_index_for_frame(frame_index),
     draws |-> Len(draw_items),
     texture_sets |-> {DefaultTextureSet} \cup
                      {draw_items[i].texture_set :
                          i \in {j \in 1..Len(draw_items) : draw_items[j].key \in uploaded}},
     waits_acquire |-> image_acquired]

(* command_manager.submit with the slot's completion fence. *)
SubmitFrame ==
    /\ pc = "submit"
    /\ UNCHANGED auxVars
    /\ \/ /\ gpu' = gpu \cup {Submission}
          /\ frame_syncs' =
                [frame_syncs EXCEPT
                    ![frame_index + 1].image_available =
                        IF image_acquired THEN WaitSemaphore(@) ELSE @,
                    ![frame_index + 1].render_finished = SignalSemaphore(@)]
          /\ submitted' = TRUE
          /\ Goto("present")
          /\ NoFault
       \/ /\ Return("err", "submit_error")
          /\ Fault
          /\ UNCHANGED <<gpu, submitted, frame_syncs>>
    /\ UNCHANGED <<deviceVarsButSyncs, resizeVars, deferVars, presented, fence_waited,
                   rebuilt, rebuild_log, pre_rebuild, prior_outcome>>

(* The advance of current_frame without the wrap-around. *)
NextFrameNoWrap(fi, n) == fi + 1

NextFrame(fi, n) == (fi + 1) % n

(* present (skipped when headless) and the advance of current_frame. *)
PresentFrame ==
    /\ pc = "present"
    /\ UNCHANGED auxVars
    /\ IF swapchain # NullHandle
       THEN \E r \in SurfaceResults :
              /\ IF r = "ok" THEN NoFault ELSE Fault
              /\ presented' = TRUE
              /\ frame_syncs' =
                    [frame_syncs EXCEPT ![frame_index + 1].render_finished =
                                            WaitSemaphore(@)]
              /\ IF on_present(r) = "proceed"
                 THEN LET f == FlushIfPending(old_swapchain_handles,
                                              swapchain_cleanup_pending,
                                              destroyed_swapchains, swapchain) IN
                      /\ safe_swapchains' =
                            safe_swapchains \cup RangeOf(old_swapchain_handles)
                      /\ old_swapchain_handles' = f.old
                      /\ swapchain_cleanup_pending' = f.pending
                      /\ destroyed_swapchains' = f.destroyed
                      /\ current_frame' = NextFrame(frame_index, command_buffers)
                      /\ Return("ok", "completed")
                      /\ UNCHANGED resizeVars
                 ELSE /\ IF on_present(r) = "resize"
                         THEN /\ request_swapchain_resize(swapchain_extent)
                              /\ Return("ok", PresentOutcome(r))
                         ELSE /\ Return("err", PresentOutcome(r))
                              /\ UNCHANGED resizeVars
                      /\ UNCHANGED <<old_swapchain_handles, swapchain_cleanup_pending,
                                     destroyed_swapchains, safe_swapchains, current_frame>>
       ELSE /\ current_frame' = NextFrame(frame_index, command_buffers)
            /\ Return("ok", "completed")
            /\ NoFault
            /\ UNCHANGED <<presented, old_swapchain_handles, swapchain_cleanup_pending,
                           destroyed_swapchains, safe_swapchains, resizeVars, frame_syncs>>
    /\ UNCHANGED <<swapchain, swapchain_extent, swapchain_images, worker_count,
                   frame_sync_ids, command_buffers, uniform_buffers, framebuffers,
                   frame_sets, shadow_sets, material_buffers, material_sets, draw_items,
                   epoch,
                   next_handle, submitted, fence_waited, rebuilt, rebuild_log,
                   pre_rebuild, gpu, prior_outcome>>

(* ------------------------------- the GPU ------------------------------- *)
(* A submission finishes and signals the completion fence it was given. *)
SignalFence(syncs, sub) ==
    IF sub.slot < Len(syncs) /\ syncs[sub.slot + 1].epoch = sub.epoch
    THEN [syncs EXCEPT ![sub.slot + 1].in_flight = TRUE]
    ELSE syncs

GpuComplete ==
    /\ UNCHANGED auxVars
    /\ \E sub \in gpu :
         /\ gpu' = gpu \ {sub}
         /\ frame_syncs' = SignalFence(frame_syncs, sub)
    /\ UNCHANGED <<swapchain, swapchain_extent, swapchain_images, worker_count, frame_sync_ids, command_buffers,
                   uniform_buffers, framebuffers, frame_sets, shadow_sets, material_buffers,
                   material_sets,
                   draw_items, current_frame, epoch, resizeVars, deferVars, callVars, envVars>>

(* ------------------------------- the host ------------------------------ *)
RequestSwapchainResize ==
    /\ pc = "idle"
    /\ UNCHANGED auxVarsButRequests
    /\ requests < MaxRequests
    /\ \E new_extent \in Extents :
         /\ request_swapchain_resize(new_extent)
         /\ request_batch' = Append(request_batch,
                                    [extent |-> new_extent,
                                     waited |-> request_waits_idle(resize_pending)])
    /\ requests' = requests + 1
    /\ calls' = 0
    /\ UNCHANGED <<deviceVars, deferVars, faults, gpu, pc, frame_index, image_index,
                   image_acquired, result, outcome, prior_outcome, submitted, presented,
                   fence_waited, rebuilt, rebuild_log, pre_rebuild>>

Next ==
    \/ RenderFrameEnter
    \/ ResizeRebuild
    \/ WaitFence
    \/ UpdateUniform
    \/ AcquireImage
    \/ RecordCommands
    \/ SubmitFrame
    \/ PresentFrame
    \/ GpuComplete
    \/ RequestSwapchainResize

Spec == Init /\ [][Next]_vars

(* ------------------------------ shutdown ------------------------------- *)
(* Drop with the deferred swapchains flushed ahead of the device-idle wait. *)
DropStepsFlushFirst ==
    << "flush_old_swapchains", "device_wait_idle", "registry_cleanup",
       "descriptor_manager", "feature_manager", "uniform_buffers", "material_buffers",
       "model_renderer", "draw_items", "mesh", "depth_buffer", "pipeline", "render_pass",
       "swapchain" >>

(* impl Drop for Renderer, flattened to its statements in program order. *)
DropSteps ==
    << "device_wait_idle", "flush_old_swapchains", "registry_cleanup",
       "descriptor_manager", "feature_manager", "uniform_buffers", "material_buffers",
       "model_renderer", "draw_items", "mesh", "depth_buffer", "pipeline", "render_pass",
       "swapchain" >>

(* What one statement of Drop does to the renderer's fields. *)
DropStep(s, st) ==
    CASE s = "flush_old_swapchains" ->
           LET f == flush_old_swapchains(st.old, st.destroyed, st.swapchain)
           IN  [st EXCEPT !.old = f.old, !.pending = f.pending, !.destroyed = f.destroyed]
      [] s = "descriptor_manager" ->
           [st EXCEPT !.frame_sets = 0, !.shadow_sets = 0, !.material_sets = 0]
      [] s = "uniform_buffers" -> [st EXCEPT !.uniform_buffers = 0]
      [] s = "material_buffers" -> [st EXCEPT !.material_buffers = 0]
      [] s = "model_renderer" -> [st EXCEPT !.uploaded = {}]
      [] s = "draw_items" -> [st EXCEPT !.draw_items = <<>>]
      [] s = "mesh" -> [st EXCEPT !.mesh = {}]
      [] s = "swapchain" -> [st EXCEPT !.swapchain = NullHandle]
      [] OTHER -> st

RECURSIVE RunDrop(_, _, _)
(* Each statement is logged with whether the device-idle wait has returned,
   whether the GPU still executes a submission and the swapchain of the time. *)
RunDrop(steps, st, busy) ==
    IF steps = <<>> THEN st
    ELSE LET s == Head(steps)
             entry == [step |-> s,
                       waited |-> \E i \in 1..Len(st.log) :
                                      st.log[i].step = "device_wait_idle",
                       busy |-> busy,
                       swapchain |-> st.swapchain]
         IN  RunDrop(Tail(steps), DropStep(s, [st EXCEPT !.log = Append(@, entry)]), busy)

(* Drop for Renderer: device_wait_idle blocks until the GPU has finished or
   returns an error that is discarded; everything after it runs on the
   dropping thread alone. *)
Shutdown ==
    /\ pc = "idle"
    /\ \E wait_ok \in BOOLEAN :
         /\ wait_ok => DeviceIdle
         /\ \E st \in {RunDrop(DropSteps,
                                [old |-> old_swapchain_handles,
                                 pending |-> swapchain_cleanup_pending,
                                 destroyed |-> destroyed_swapchains,
                                 swapchain |-> swapchain, frame_sets |-> frame_sets,
                                 shadow_sets |-> shadow_sets,
                                 material_sets |-> material_sets,
                                 uniform_buffers |-> uniform_buffers,
                                 material_buffers |-> material_buffers,
                                 uploaded |-> uploaded, draw_items |-> draw_items,
                                 mesh |-> mesh, log |-> <<>>],
                                ~wait_ok /\ gpu # {})} :
              /\ old_swapchain_handles' = st.old
              /\ swapchain_cleanup_pending' = st.pending
              /\ destroyed_swapchains' = st.destroyed
              /\ swapchain' = st.swapchain
              /\ frame_sets' = st.frame_sets
              /\ shadow_sets' = st.shadow_sets
              /\ material_sets' = st.material_sets
              /\ uniform_buffers' = st.uniform_buffers
              /\ material_buffers' = st.material_buffers
              /\ uploaded' = st.uploaded
              /\ draw_items' = st.draw_items
              /\ mesh' = st.mesh
              /\ shutdown_log' = st.log
    /\ pc' = "dropped"
    /\ UNCHANGED <<swapchain_extent, swapchain_images, worker_count, frame_syncs,
                   frame_sync_ids, command_buffers, framebuffers, current_frame, epoch,
                   resizeVars, next_handle, safe_swapchains, frame_index, image_index,
                   image_acquired, calls, result, outcome, prior_outcome, submitted,
                   presented, fence_waited, rebuilt, rebuild_log, pre_rebuild, envVars, gpu,
                   workerVars, mesh_registry, mesh_texture_sets, mesh_texture_flags,
                   texture_sets_allocated,
                   last_op, hazard_writes, mesh_ops, material_registry, submitted_commands,
                   bindlessVars, registryVars, descriptorVars, cacheVars, deferOpVars,
                   requestVars>>

ShutdownNext ==
    \/ RenderFrameEnter
    \/ ResizeRebuild
    \/ WaitFence
    \/ UpdateUniform
    \/ AcquireImage
    \/ RecordCommands
    \/ SubmitFrame
    \/ PresentFrame
    \/ GpuComplete
    \/ RequestSwapchainResize
    \/ Shutdown

ShutdownSpec == Init /\ [][ShutdownNext]_vars

(* ----------------------------- mesh operations -------------------------- *)
(* Descriptor sets some submission still executing on the GPU has bound. *)
SetsInFlight == UNION {sub.texture_sets : sub \in gpu}

(* update_mesh_texture_set(key, binding). *)
update_mesh_texture_set(sets, key, has_any_texture) ==
    prepare_texture_set(texture_sets_allocated, Get(sets, key), has_any_texture)

(* set_mesh(mesh): upload failures are logged, nothing is returned. Both
   per-mesh maps are cleared before the texture set is prepared. *)
SetMesh ==
    /\ pc = "idle"
    /\ mesh_ops < MaxMeshOps
    /\ mesh_ops' = mesh_ops + 1
    /\ \E key \in MeshKeys, flags \in TextureFlagSets, ensure_mesh_ok \in BOOLEAN :
         IF ensure_mesh_ok
         THEN LET binding == from_mesh(flags)
                  p == update_mesh_texture_set(EmptyMap, key, binding.flags # {})
              IN
              /\ uploaded' = uploaded \cup {key}
              /\ texture_sets_allocated' = p.allocated
              /\ hazard_writes' = p.written \cap SetsInFlight
              /\ last_op' = MeshOp("set_mesh", "ok", key, flags, p,
                                   IF p.ok THEN "none" ELSE "texture_set")
              /\ IF p.ok
                 THEN /\ mesh_texture_sets' = Put(EmptyMap, key, p.set)
                      /\ mesh_texture_flags' = Put(EmptyMap, key, binding.flags)
                      /\ draw_items' = << [key |-> key, texture_set |-> p.set,
                                           texture_flags |-> binding.flags,
                                           bindless_indices |-> binding.bindless_indices] >>
                      /\ mesh_registry' = Put(EmptyMap, 0, key)
                      /\ material_registry' = material_registry \cup {0}
                      /\ mesh' = {key}
                 ELSE /\ mesh_texture_sets' = EmptyMap
                      /\ mesh_texture_flags' = EmptyMap
                      /\ UNCHANGED <<draw_items, mesh_registry, material_registry, mesh>>
         ELSE /\ last_op' = PlainOp("set_mesh", "ok", "ensure_mesh")
              /\ hazard_writes' = {}
              /\ UNCHANGED <<uploaded, texture_sets_allocated, mesh_texture_sets,
                             mesh_texture_flags, draw_items, mesh_registry,
                             material_registry, mesh>>
    /\ submitted_commands' = <<>>
    /\ UNCHANGED <<swapchain, swapchain_extent, swapchain_images, worker_count, frame_syncs,
                   frame_sync_ids, command_buffers, uniform_buffers, framebuffers,
                   frame_sets, shadow_sets, material_buffers, material_sets, current_frame,
                   epoch, resizeVars, deferVars, callVars, envVars, gpu, workerVars,
                   bindlessVars, registryVars, descriptorVars, cacheVars, deferOpVars, shutdownVars, requestVars>>

(* How Mesh::ensure_texture and ModelRenderer::ensure_mesh can end; neither
   waits for the frames in flight. *)
EnsureResults == {"ok", "texture_failed", "mesh_failed"}

(* register_mesh_handle(handle, mesh). *)
RegisterMeshHandle ==
    /\ pc = "idle"
    /\ mesh_ops < MaxMeshOps
    /\ mesh_ops' = mesh_ops + 1
    /\ \E handle \in MeshHandles, key \in MeshKeys, flags \in TextureFlagSets,
          ensure \in EnsureResults :
         IF ensure = "ok"
         THEN LET binding == from_mesh(flags)
                  p == update_mesh_texture_set(mesh_texture_sets, key, binding.flags # {})
              IN
              /\ uploaded' = uploaded \cup {key}
              /\ texture_sets_allocated' = p.allocated
              /\ hazard_writes' = p.written \cap SetsInFlight
              /\ mesh_texture_sets' = IF p.ok THEN Put(mesh_texture_sets, key, p.set)
                                      ELSE mesh_texture_sets
              /\ mesh_texture_flags' = IF p.ok THEN Put(mesh_texture_flags, key, binding.flags)
                                       ELSE mesh_texture_flags
              /\ mesh_registry' = Put(mesh_registry, handle, key)
              /\ last_op' = MeshOp("register_mesh_handle", "ok", key, flags, p,
                                   IF p.ok THEN "none" ELSE "texture_set")
         ELSE /\ last_op' = PlainOp("register_mesh_handle", "err", ensure)
              /\ hazard_writes' = {}
              /\ UNCHANGED <<uploaded, texture_sets_allocated, mesh_texture_sets,
                             mesh_texture_flags, mesh_registry>>
    /\ submitted_commands' = <<>>
    /\ UNCHANGED <<deviceVars, resizeVars, deferVars, callVars, envVars, gpu, workerVars, mesh,
                   material_registry, bindlessVars, registryVars, descriptorVars, cacheVars, deferOpVars, shutdownVars, requestVars>>

(* register_material_handle(handle, material). *)
RegisterMaterialHandle ==
    /\ pc = "idle"
    /\ mesh_ops < MaxMeshOps
    /\ mesh_ops' = mesh_ops + 1
    /\ \E handle \in MaterialHandles : material_registry' = material_registry \cup {handle}
    /\ last_op' = PlainOp("register_material_handle", "ok", "none")
    /\ hazard_writes' = {}
    /\ submitted_commands' = <<>>
    /\ UNCHANGED <<deviceVars, resizeVars, deferVars, callVars, envVars, gpu, workerVars, mesh,
                   mesh_registry, mesh_texture_sets, mesh_texture_flags, uploaded,
                   texture_sets_allocated,
                   bindlessVars, registryVars, descriptorVars, cacheVars, deferOpVars, shutdownVars, requestVars>>

(* The draw item submit_render_commands builds for a mesh key. *)
DrawItemFor(key) ==
    [key |-> key,
     texture_set |-> IF key \in DOMAIN mesh_texture_sets THEN mesh_texture_sets[key]
                     ELSE DefaultTextureSet,
     texture_flags |-> IF key \in DOMAIN mesh_texture_flags THEN mesh_texture_flags[key]
                       ELSE {},
     bindless_indices |-> NotRegistered]

RECURSIVE CommandItemsAnyMaterial(_)
(* A draw list that takes every command with a registered mesh handle. *)
CommandItemsAnyMaterial(commands) ==
    IF commands = <<>>
    THEN <<>>
    ELSE LET rest == CommandItemsAnyMaterial(Tail(commands)) IN
         IF Head(commands).mesh_handle \in DOMAIN mesh_registry
         THEN <<DrawItemFor(mesh_registry[Head(commands).mesh_handle])>> \o rest
         ELSE rest

RECURSIVE CommandItems(_)
(* The loop over the commands: one item per command whose mesh handle and
   material handle are both registered. *)
CommandItems(commands) ==
    IF commands = <<>>
    THEN <<>>
    ELSE LET rest == CommandItems(Tail(commands)) IN
         IF /\ Head(commands).mesh_handle \in DOMAIN mesh_registry
            /\ Head(commands).material_handle \in material_registry
         THEN <<DrawItemFor(mesh_registry[Head(commands).mesh_handle])>> \o rest
         ELSE rest

RenderCommands == [mesh_handle : MeshHandles, material_handle : MaterialHandles]

CommandLists == UNION {[1..n -> RenderCommands] : n \in 0..MaxCommands}

(* submit_render_commands(commands). *)
SubmitRenderCommands ==
    /\ pc = "idle"
    /\ mesh_ops < MaxMeshOps
    /\ mesh_ops' = mesh_ops + 1
    /\ \E commands \in CommandLists :
         /\ submitted_commands' = commands
         /\ \E items \in {CommandItems(commands)} :
              draw_items' = IF items = <<>> /\ mesh # {}
                            THEN <<DrawItemFor(CHOOSE k \in mesh : TRUE)>>
                            ELSE items
    /\ last_op' = PlainOp("submit_render_commands", "ok", "none")
    /\ hazard_writes' = {}
    /\ UNCHANGED <<swapchain, swapchain_extent, swapchain_images, worker_count, frame_syncs,
                   frame_sync_ids, command_buffers, uniform_buffers, framebuffers,
                   frame_sets, shadow_sets, material_buffers, material_sets, current_frame,
                   epoch, resizeVars, deferVars, callVars, envVars, gpu, workerVars,
                   mesh, mesh_registry, mesh_texture_sets, mesh_texture_flags, uploaded,
                   texture_sets_allocated,
                   material_registry, bindlessVars, registryVars, descriptorVars, cacheVars, deferOpVars, shutdownVars, requestVars>>

MeshInit ==
    /\ \E flags \in TextureFlagSets :
         RendererInit(TRUE, 2, 1, [width |-> MaxDim, height |-> MaxDim], flags)
    /\ WorkerIdle
    /\ BindlessIdle
    /\ DescriptorIdle
    /\ CacheIdle
    /\ DeferIdle
    /\ ShutdownIdle
    /\ RequestIdle
    /\ RegistryIdle

MeshNext ==
    \/ RenderFrameEnter
    \/ WaitFence
    \/ UpdateUniform
    \/ AcquireImage
    \/ RecordCommands
    \/ SubmitFrame
    \/ PresentFrame
    \/ GpuComplete
    \/ SetMesh
    \/ RegisterMeshHandle

MeshSpec == MeshInit /\ [][MeshNext]_vars

(* The host's mesh, material and draw-list calls between frames. *)
DrawListNext ==
    \/ SetMesh
    \/ RegisterMeshHandle
    \/ RegisterMaterialHandle
    \/ SubmitRenderCommands

DrawListSpec == MeshInit /\ [][DrawListNext]_vars

(* A renderer that stays idle while another component is under test. *)
RendererParked == RendererInit(TRUE, 2, 1, [width |-> MaxDim, height |-> MaxDim], {})

(* --------------------------- ResourceRegistry -------------------------- *)
(* Records that list id among their dependencies. *)
Dependents(records, id) == {r \in DOMAIN records : id \in records[r].deps}

Remove(map, k) == [x \in DOMAIN map \ {k} |-> map[x]]

(* The registry, the renderer's ids and objects, and the warnings of the
   running operation, threaded through the steps of one operation. *)
RegState ==
    [reg |-> resource_registry, ids |-> resource_ids, objs |-> resource_objects,
     log |-> <<>>, err |-> FALSE, last_id |-> 0, last_ok |-> TRUE]

(* register: a new record under a fresh id, unless a dependency is unknown. *)
register(st, kind, deps) ==
    IF st.err THEN st
    ELSE IF deps \subseteq DOMAIN st.reg.records
    THEN [st EXCEPT !.reg.records = Put(@, st.reg.next_id, [kind |-> kind, deps |-> deps]),
                    !.reg.destroy_count = Put(@, st.reg.next_id, 0),
                    !.reg.next_id = @ + 1,
                    !.last_id = st.reg.next_id]
    ELSE [st EXCEPT !.err = TRUE]

(* One call of the native destroy function on the handle of id. *)
destroy_native(st, id) == [st EXCEPT !.reg.destroy_count[id] = @ + 1]

(* cleanup_resource: refused while a live record depends on the target. *)
cleanup_resource(st, id) ==
    IF id \notin DOMAIN st.reg.records \/ Dependents(st.reg.records, id) # {}
    THEN [st EXCEPT !.last_ok = FALSE]
    ELSE [destroy_native(st, id) EXCEPT !.reg.records = Remove(@, id), !.last_ok = TRUE]

RECURSIVE Drain(_)
(* cleanup: every record destroyed, dependents before their dependencies. *)
Drain(st) ==
    IF DOMAIN st.reg.records = {} THEN st
    ELSE LET free == {r \in DOMAIN st.reg.records : Dependents(st.reg.records, r) = {}}
             id == CHOOSE r \in free : \A o \in free : o <= r
         IN  Drain([destroy_native(st, id) EXCEPT !.reg.records = Remove(@, id)])

cleanup(st, bad) ==
    [Drain(st) EXCEPT !.last_ok = (bad \cap DOMAIN st.reg.records = {})]

(* mark_managed_by_registry: the object's own drop leaves the handle alone. *)
mark_managed_by_registry(st, id) ==
    IF st.err THEN st ELSE [st EXCEPT !.reg.managed = @ \cup {id}]

(* Dropping an object destroys its handle unless the registry manages it. *)
drop_object(st, id) == IF id \in st.reg.managed THEN st ELSE destroy_native(st, id)

RECURSIVE drop_objects(_, _)
drop_objects(st, objects) ==
    IF objects = {} THEN st
    ELSE LET id == CHOOSE o \in objects : TRUE
         IN  drop_objects(drop_object(st, id), objects \ {id})

(* `if let Err(e) = cleanup_resource(id) { log::warn!(..) }` *)
cleanup_or_warn(st, id) ==
    LET r == cleanup_resource(st, id)
    IN  [r EXCEPT !.log = Append(@, [id |-> id,
                                     kind |-> IF id \in DOMAIN st.reg.records
                                              THEN st.reg.records[id].kind ELSE "unknown",
                                     dependents |-> Dependents(st.reg.records, id) # {},
                                     res |-> IF r.last_ok THEN "ok" ELSE "err"])]

RECURSIVE cleanup_each(_, _)
cleanup_each(st, ids) ==
    IF ids = <<>> THEN st ELSE cleanup_each(cleanup_or_warn(st, Head(ids)), Tail(ids))

RECURSIVE cleanup_framebuffer_records(_)
cleanup_framebuffer_records(st) ==
    IF st.ids.framebuffer_ids = <<>> THEN st
    ELSE LET id == Head(st.ids.framebuffer_ids)
             taken == [st EXCEPT !.ids.framebuffer_ids = Tail(@)]
         IN  cleanup_framebuffer_records(cleanup_or_warn(drop_object(taken, id), id))

(* A teardown that destroys the render pass itself when the registry refuses. *)
cleanup_render_pass_forced(st) ==
    IF st.ids.render_pass_id = {} THEN st
    ELSE LET id == CHOOSE r \in st.ids.render_pass_id : TRUE
             r == cleanup_or_warn([st EXCEPT !.ids.render_pass_id = {}], id)
         IN  IF r.last_ok THEN r ELSE destroy_native(r, id)

cleanup_render_pass(st) ==
    IF st.ids.render_pass_id = {} THEN st
    ELSE LET id == CHOOSE r \in st.ids.render_pass_id : TRUE
         IN  cleanup_or_warn([st EXCEPT !.ids.render_pass_id = {}], id)

RECURSIVE register_image_views(_, _)
register_image_views(st, n) ==
    IF n = 0 \/ st.err THEN st
    ELSE LET r == register(st, "image_view", {})
         IN  register_image_views(
                 [r EXCEPT !.ids.swapchain_image_view_ids = Append(@, r.last_id)], n - 1)

(* mark_image_views_managed_by_registry *)
mark_managed_by_registry_views(st) ==
    IF st.err THEN st
    ELSE [st EXCEPT !.reg.managed = @ \cup RangeOf(st.ids.swapchain_image_view_ids)]

update_image_views(st, n) ==
    LET cleaned == cleanup_each(st, st.ids.swapchain_image_view_ids)
        r == register_image_views([cleaned EXCEPT !.ids.swapchain_image_view_ids = <<>>], n)
    IN  mark_managed_by_registry_views(r)

NoStepFault == [step |-> "none", index |-> 0]

(* Option::take as the sequence of what it yields. *)
Taken(option) == IF option = {} THEN <<>> ELSE <<CHOOSE x \in option : TRUE>>

(* DepthBuffer::new and register_with_registry. *)
new_depth_buffer(st, fault) ==
    IF st.err \/ fault.step = "depth_buffer" THEN [st EXCEPT !.err = TRUE]
    ELSE LET r == register(st, "depth_buffer", {})
             m == mark_managed_by_registry(r, r.last_id)
         IN  [drop_objects(m, st.objs.depth_buffer) EXCEPT
                  !.objs.depth_buffer = {r.last_id}, !.ids.depth_buffer_id = {r.last_id}]

recreate_depth_buffer(st, fault) ==
    IF st.err THEN st
    ELSE LET taken == [st EXCEPT !.ids.depth_buffer_id = {}]
         IN  new_depth_buffer(cleanup_each(taken, Taken(st.ids.depth_buffer_id)), fault)

(* RenderPass build and register_render_pass. *)
new_render_pass(st, fault) ==
    IF st.err \/ fault.step = "render_pass" THEN [st EXCEPT !.err = TRUE]
    ELSE LET r == register(st, "render_pass", {})
             m == mark_managed_by_registry(r, r.last_id)
         IN  [drop_objects(m, st.objs.render_pass) EXCEPT
                  !.objs.render_pass = {r.last_id}, !.ids.render_pass_id = {r.last_id}]

RECURSIVE new_framebuffers_unmanaged(_, _, _, _)
(* Framebuffers that are registered but never marked as managed. *)
new_framebuffers_unmanaged(st, index, n, fault) ==
    IF index > n \/ st.err THEN st
    ELSE IF fault.step = "framebuffer" /\ fault.index = index
    THEN [drop_objects(st, RangeOf(st.ids.framebuffer_ids)) EXCEPT
              !.err = TRUE, !.ids.framebuffer_ids = <<>>]
    ELSE LET r == register(st, "framebuffer",
                           st.ids.render_pass_id \cup st.ids.depth_buffer_id \cup
                               {st.ids.swapchain_image_view_ids[index]})
         IN  new_framebuffers_unmanaged(
                 [r EXCEPT !.ids.framebuffer_ids = Append(@, r.last_id)], index + 1, n, fault)

RECURSIVE new_framebuffers(_, _, _, _)
(* Framebuffer::new, register_framebuffer and mark_managed_by_registry per
   image; the ids reach the renderer only when the whole loop succeeds. *)
new_framebuffers(st, index, n, fault) ==
    IF index > n \/ st.err THEN st
    ELSE IF fault.step = "framebuffer" /\ fault.index = index
    THEN [drop_objects(st, RangeOf(st.ids.framebuffer_ids)) EXCEPT
              !.err = TRUE, !.ids.framebuffer_ids = <<>>]
    ELSE LET r == register(st, "framebuffer",
                           st.ids.render_pass_id \cup st.ids.depth_buffer_id \cup
                               {st.ids.swapchain_image_view_ids[index]})
             m == mark_managed_by_registry(r, r.last_id)
         IN  new_framebuffers(
                 [m EXCEPT !.ids.framebuffer_ids = Append(@, r.last_id)], index + 1, n, fault)

create_render_pass_and_framebuffers(st, n, fault) ==
    new_framebuffers(new_render_pass(st, fault), 1, n, fault)

RECURSIVE Flatten(_)
Flatten(triples) ==
    IF triples = <<>> THEN <<>> ELSE Head(triples) \o Flatten(Tail(triples))

RECURSIVE new_frame_syncs(_, _, _, _)
(* FrameSync::new and the registration of its two semaphores and fence. *)
new_frame_syncs(st, index, count, fault) ==
    IF index > count \/ st.err THEN st
    ELSE IF fault.step = "frame_sync" /\ fault.index = index
    THEN [drop_objects(st, RangeOf(Flatten(st.ids.frame_sync_ids))) EXCEPT
              !.err = TRUE, !.ids.frame_sync_ids = <<>>]
    ELSE LET a == register(st, "semaphore", {})
             b == register(a, "semaphore", {})
             c == register(b, "fence", {})
             m == [c EXCEPT !.reg.managed = @ \cup {a.last_id, b.last_id, c.last_id}]
         IN  new_frame_syncs(
                 [m EXCEPT !.ids.frame_sync_ids =
                               Append(@, <<a.last_id, b.last_id, c.last_id>>)],
                 index + 1, count, fault)

recreate_frame_sync_records(st, count, fault) ==
    IF st.err THEN st
    ELSE new_frame_syncs(
             cleanup_each([st EXCEPT !.ids.frame_sync_ids = <<>>],
                          Flatten(st.ids.frame_sync_ids)),
             1, count, fault)

(* The registrations of Renderer::new, in program order. *)
new_resources(n) ==
    LET views == register_image_views(EmptyRegState, n)
        depth == new_depth_buffer(mark_managed_by_registry_views(views), NoStepFault)
        fbs == create_render_pass_and_framebuffers(depth, n, NoStepFault)
        syncs == new_frame_syncs(fbs, 1, n, NoStepFault)
        pool == register(syncs, "command_pool", {})
        layout == register(mark_managed_by_registry(pool, pool.last_id),
                           "pipeline_layout", {})
        pipeline == register(mark_managed_by_registry(layout, layout.last_id), "pipeline",
                             {layout.last_id} \cup fbs.ids.render_pass_id)
    IN  [mark_managed_by_registry(pipeline, pipeline.last_id) EXCEPT
             !.objs.pipeline = {pipeline.last_id}]

(* The registry's part of recreate_swapchain_resources. *)
rebuild_resources(st, n, fault) ==
    IF fault.step = "swapchain" THEN [st EXCEPT !.err = TRUE]
    ELSE LET torn == update_image_views(cleanup_render_pass(cleanup_framebuffer_records(st)), n)
             built == create_render_pass_and_framebuffers(recreate_depth_buffer(torn, fault),
                                                          n, fault)
         IN  recreate_frame_sync_records(built, Len(built.ids.framebuffer_ids), fault)

(* Drop: the registry drained, then the renderer's objects dropped. *)
drop_renderer(st, bad) ==
    LET drained == cleanup(st, bad)
    IN  drop_objects(drained, RangeOf(st.ids.framebuffer_ids) \cup st.objs.depth_buffer \cup
                                  st.objs.pipeline \cup st.objs.render_pass)

Faults(n) ==
    {NoStepFault} \cup
    {[step |-> s, index |-> 0] : s \in {"swapchain", "depth_buffer", "render_pass"}} \cup
    {[step |-> s, index |-> i] : s \in {"framebuffer", "frame_sync"}, i \in 1..n}

RegistryInit ==
    /\ RendererParked
    /\ WorkerIdle
    /\ BindlessIdle
    /\ DescriptorIdle
    /\ CacheIdle
    /\ DeferIdle
    /\ ShutdownIdle
    /\ RequestIdle
    /\ \E n \in 1..MaxViews :
         \E st \in {new_resources(n)} :
           /\ resource_registry = st.reg
           /\ resource_ids = st.ids
           /\ resource_objects = st.objs
    /\ cleanup_log = <<>>
    /\ registry_op = [op |-> "new", res |-> "ok"]
    /\ registry_rebuilds = 0

(* resize_if_needed reaching recreate_swapchain_resources. *)
RegistryRebuild ==
    /\ registry_op.op # "drop"
    /\ registry_rebuilds < MaxRebuilds
    /\ registry_rebuilds' = registry_rebuilds + 1
    /\ \E n \in 1..MaxViews :
         \E fault \in Faults(n) :
           \E st \in {rebuild_resources(RegState, n, fault)} :
             /\ resource_registry' = st.reg
             /\ resource_ids' = st.ids
             /\ resource_objects' = st.objs
             /\ cleanup_log' = st.log
             /\ registry_op' = [op |-> "rebuild", res |-> IF st.err THEN "err" ELSE "ok"]
    /\ UNCHANGED <<rendererVars, workerVars, meshVars, bindlessVars, descriptorVars, cacheVars, deferOpVars, shutdownVars, requestVars>>

(* The native destructions that report an error during cleanup(): none, that
   of the oldest record or that of the newest. *)
FailingDestroys(ids) ==
    {{}} \cup {{id} : id \in {i \in ids : (\A o \in ids : o <= i) \/ (\A p \in ids : i <= p)}}

(* impl Drop for Renderer. *)
RendererDrop ==
    /\ registry_op.op # "drop"
    /\ \E bad \in FailingDestroys(DOMAIN resource_registry.records) :
         \E st \in {drop_renderer(RegState, bad)} :
           /\ resource_registry' = st.reg
           /\ resource_ids' = st.ids
           /\ resource_objects' = st.objs
           /\ registry_op' = [op |-> "drop", res |-> IF st.last_ok THEN "ok" ELSE "err"]
    /\ UNCHANGED <<rendererVars, workerVars, meshVars, bindlessVars, descriptorVars, cacheVars, deferOpVars, shutdownVars, requestVars, cleanup_log,
                   registry_rebuilds>>

RegistryNext ==
    \/ RegistryRebuild
    \/ RendererDrop

RegistrySpec == RegistryInit /\ [][RegistryNext]_vars

(* -------------------------- DescriptorManager -------------------------- *)
(* A frame-cycle reset that also forgets the sets handed out so far. *)
next_frame_clearing(dyn, cycle) == [dynamic_sets |-> {}, frame_cycle |-> (cycle + 1) % 2]

(* next_frame: only the allocator's frame-cycle marker advances. *)
next_frame(dyn, cycle) == [dynamic_sets |-> dyn, frame_cycle |-> (cycle + 1) % 2]

(* material_texture_descriptor: the default array set or a managed set. *)
material_texture_descriptor(dyn, set) ==
    IF set = DefaultTextureSet THEN "ok" ELSE IF set \in dyn THEN "ok" ELSE "err"

(* bind_material_textures: the lookup, then one write per binding. *)
bind_material_textures(dyn, set, write_ok) ==
    IF material_texture_descriptor(dyn, set) = "err" THEN "unmanaged"
    ELSE IF write_ok THEN "ok" ELSE "err"

DescriptorInit ==
    /\ RendererParked
    /\ WorkerIdle
    /\ BindlessIdle
    /\ RegistryIdle
    /\ CacheIdle
    /\ DeferIdle
    /\ ShutdownIdle
    /\ RequestIdle
    /\ dynamic_sets = {}
    /\ static_sets_allocated = 0
    /\ frame_cycle = 0
    /\ handed_out = EmptyMap
    /\ last_bind = [set |-> DefaultTextureSet, handed_out |-> FALSE, res |-> "none",
                    frames |-> 0]
    /\ next_frames = 0

(* allocate_texture_set / allocate_material_texture_set: the set is recorded
   in dynamic_sets; an exhausted static pool is returned as the error. *)
AllocateTextureSet ==
    /\ \E call \in {"allocate_texture_set", "allocate_material_texture_set"} :
         LET a == allocate_static_set(static_sets_allocated) IN
         IF a.ok
         THEN /\ static_sets_allocated' = a.allocated
              /\ dynamic_sets' = dynamic_sets \cup {a.set}
              /\ handed_out' = Put(handed_out, a.set, call)
         ELSE UNCHANGED <<static_sets_allocated, dynamic_sets, handed_out>>
    /\ UNCHANGED <<rendererVars, workerVars, meshVars, bindlessVars, registryVars, cacheVars, deferOpVars, shutdownVars, requestVars,
                   frame_cycle, last_bind, next_frames>>

DescriptorNextFrame ==
    /\ next_frames < MaxNextFrames
    /\ next_frames' = next_frames + 1
    /\ LET n == next_frame(dynamic_sets, frame_cycle) IN
       /\ dynamic_sets' = n.dynamic_sets
       /\ frame_cycle' = n.frame_cycle
    /\ UNCHANGED <<rendererVars, workerVars, meshVars, bindlessVars, registryVars, cacheVars, deferOpVars, shutdownVars, requestVars,
                   static_sets_allocated, handed_out, last_bind>>

BindMaterialTextures ==
    /\ \E set \in 0..(MaxTextureSets + 1), write_ok \in BOOLEAN :
         last_bind' = [set |-> set,
                       handed_out |-> set \in DOMAIN handed_out,
                       res |-> bind_material_textures(dynamic_sets, set, write_ok),
                       frames |-> next_frames]
    /\ UNCHANGED <<rendererVars, workerVars, meshVars, bindlessVars, registryVars, cacheVars, deferOpVars, shutdownVars, requestVars,
                   dynamic_sets, static_sets_allocated, frame_cycle, handed_out, next_frames>>

DescriptorNext ==
    \/ AllocateTextureSet
    \/ DescriptorNextFrame
    \/ BindMaterialTextures

DescriptorSpec == DescriptorInit /\ [][DescriptorNext]_vars

(* ----------------------------- PipelineCache --------------------------- *)
DiskStates == {"missing", "unreadable", "empty", "blob"}

(* A load that gives up on a cache file it cannot read. *)
load_initial_data_strict(file, on_disk) ==
    IF file = {} THEN [ok |-> TRUE, data |-> "empty", log |-> <<>>]
    ELSE IF on_disk = "missing" THEN [ok |-> TRUE, data |-> "empty", log |-> <<"debug">>]
    ELSE IF on_disk = "unreadable" THEN [ok |-> FALSE, data |-> "empty", log |-> <<"warn_load">>]
    ELSE [ok |-> TRUE, data |-> on_disk, log |-> <<"info_loaded">>]

(* with_persistence, the read of the cache file: nothing but data comes of it. *)
load_initial_data(file, on_disk) ==
    IF file = {} THEN [ok |-> TRUE, data |-> "empty", log |-> <<>>]
    ELSE IF on_disk = "missing" THEN [ok |-> TRUE, data |-> "empty", log |-> <<"debug">>]
    ELSE IF on_disk = "unreadable" THEN [ok |-> TRUE, data |-> "empty", log |-> <<"warn_load">>]
    ELSE [ok |-> TRUE, data |-> on_disk, log |-> <<"info_loaded">>]

(* save: get_data, create_dir_all and write, each ending in `?`. *)
save(file, on_disk, get_ok, mkdir_ok, write_ok) ==
    IF file = {} THEN [res |-> "ok", disk |-> on_disk, log |-> <<>>]
    ELSE IF get_ok /\ mkdir_ok /\ write_ok
    THEN [res |-> "ok", disk |-> "blob", log |-> <<"info_saved">>]
    ELSE [res |-> "err", disk |-> on_disk, log |-> <<>>]

CacheInit ==
    /\ RendererParked
    /\ DeferIdle
    /\ ShutdownIdle
    /\ RequestIdle
    /\ WorkerIdle
    /\ BindlessIdle
    /\ RegistryIdle
    /\ DescriptorIdle
    /\ cache = "none"
    /\ cache_file \in {{}, {"path"}}
    /\ disk \in DiskStates
    /\ initial_data = "empty"
    /\ cache_destroys = 0
    /\ cache_log = <<>>
    /\ saves = [count |-> 0, res |-> "none"]

(* PipelineCache::with_persistence(device, cache_file). *)
CacheWithPersistence ==
    /\ cache = "none"
    /\ \E create_ok \in BOOLEAN :
         LET l == load_initial_data(cache_file, disk) IN
         /\ cache_log' = cache_log \o l.log
         /\ initial_data' = l.data
         /\ cache' = IF l.ok /\ create_ok THEN "live" ELSE "failed"
         /\ saves' = [saves EXCEPT !.res = IF create_ok THEN "create_ok" ELSE "create_err"]
    /\ UNCHANGED <<rendererVars, workerVars, meshVars, bindlessVars, registryVars,
                   descriptorVars, deferOpVars, shutdownVars, requestVars, cache_file, disk, cache_destroys>>

(* PipelineCache::save called by the owner. *)
CacheSave ==
    /\ cache = "live"
    /\ saves.count < MaxSaves
    /\ \E get_ok \in BOOLEAN, mkdir_ok \in BOOLEAN, write_ok \in BOOLEAN :
         LET r == save(cache_file, disk, get_ok, mkdir_ok, write_ok) IN
         /\ disk' = r.disk
         /\ cache_log' = cache_log \o r.log
         /\ saves' = [count |-> saves.count + 1, res |-> r.res]
    /\ UNCHANGED <<rendererVars, workerVars, meshVars, bindlessVars, registryVars,
                   descriptorVars, deferOpVars, shutdownVars, requestVars, cache, cache_file, initial_data, cache_destroys>>

(* Drop for PipelineCache: save when persistent, then destroy. *)
CacheDrop ==
    /\ cache = "live"
    /\ \E get_ok \in BOOLEAN, mkdir_ok \in BOOLEAN, write_ok \in BOOLEAN :
         LET r == save(cache_file, disk, get_ok, mkdir_ok, write_ok) IN
         /\ disk' = r.disk
         /\ cache_log' = cache_log \o r.log \o
                            (IF cache_file # {} /\ r.res = "err"
                             THEN <<"warn_save">> ELSE <<>>)
    /\ cache_destroys' = cache_destroys + 1
    /\ cache' = "destroyed"
    /\ UNCHANGED <<rendererVars, workerVars, meshVars, bindlessVars, registryVars,
                   descriptorVars, deferOpVars, shutdownVars, requestVars, cache_file, initial_data, saves>>

CacheNext ==
    \/ CacheWithPersistence
    \/ CacheSave
    \/ CacheDrop

CacheSpec == CacheInit /\ [][CacheNext]_vars

(* ----------------------- deferred swapchain list ----------------------- *)
(* The handles a deferral can be given: the next swapchain handle to be
   superseded, or the null handle. *)
DeferHandles == {NullHandle, next_handle}

DeferInit ==
    /\ WorkerIdle
    /\ BindlessIdle
    /\ RegistryIdle
    /\ DescriptorIdle
    /\ CacheIdle
    /\ \E headless \in BOOLEAN :
         RendererInit(headless, 2, 1, [width |-> MaxDim, height |-> MaxDim], {})
    /\ defer_op = [op |-> "new", handle |-> NullHandle, count |-> 0]
    /\ ShutdownIdle
    /\ RequestIdle

(* defer_old_swapchain(handle), called by the rebuild of a windowed renderer. *)
DeferOldSwapchain ==
    /\ swapchain # NullHandle
    /\ defer_op.op # "drop"
    /\ defer_op.count < MaxDefers
    /\ \E handle \in DeferHandles :
         LET d == defer_old_swapchain(old_swapchain_handles, swapchain_cleanup_pending, handle)
         IN  /\ old_swapchain_handles' = d.old
             /\ swapchain_cleanup_pending' = d.pending
             /\ next_handle' = IF handle = NullHandle THEN next_handle ELSE next_handle + 1
             /\ defer_op' = [op |-> "defer", handle |-> handle, count |-> defer_op.count + 1]
    /\ UNCHANGED <<deviceVars, resizeVars, destroyed_swapchains, safe_swapchains, callVars,
                   envVars, gpu, workerVars, meshVars, bindlessVars, registryVars,
                   descriptorVars, cacheVars, shutdownVars, requestVars>>

(* The flush behind the cleanup flag in render_frame. *)
FlushOldSwapchains ==
    /\ defer_op.op # "drop"
    /\ defer_op.count < MaxDefers
    /\ LET f == FlushIfPending(old_swapchain_handles, swapchain_cleanup_pending,
                               destroyed_swapchains, swapchain)
       IN  /\ old_swapchain_handles' = f.old
           /\ swapchain_cleanup_pending' = f.pending
           /\ destroyed_swapchains' = f.destroyed
    /\ defer_op' = [op |-> "flush_if_pending", handle |-> NullHandle,
                    count |-> defer_op.count + 1]
    /\ UNCHANGED <<deviceVars, resizeVars, next_handle, safe_swapchains, callVars, envVars,
                   gpu, workerVars, meshVars, bindlessVars, registryVars, descriptorVars,
                   cacheVars, shutdownVars, requestVars>>

(* The unconditional flush of Drop, after which nothing runs. *)
DeferDrop ==
    /\ defer_op.op # "drop"
    /\ LET f == flush_old_swapchains(old_swapchain_handles, destroyed_swapchains, swapchain)
       IN  /\ old_swapchain_handles' = f.old
           /\ swapchain_cleanup_pending' = f.pending
           /\ destroyed_swapchains' = f.destroyed
    /\ defer_op' = [op |-> "drop", handle |-> NullHandle, count |-> defer_op.count]
    /\ UNCHANGED <<deviceVars, resizeVars, next_handle, safe_swapchains, callVars, envVars,
                   gpu, workerVars, meshVars, bindlessVars, registryVars, descriptorVars,
                   cacheVars, shutdownVars, requestVars>>

DeferNext ==
    \/ DeferOldSwapchain
    \/ FlushOldSwapchains
    \/ DeferDrop

DeferSpec == DeferInit /\ [][DeferNext]_vars

(* --------------------------- BindlessManager --------------------------- *)
(* The descriptor binding each add_* operation writes. *)
AddBinding == [add_sampled_image |-> 0, add_storage_image |-> 1, add_storage_buffer |-> 2]

BindlessInit ==
    /\ RendererParked
    /\ WorkerIdle
    /\ RegistryIdle
    /\ DescriptorIdle
    /\ CacheIdle
    /\ DeferIdle
    /\ ShutdownIdle
    /\ RequestIdle
    /\ bindless = "unbuilt"
    /\ max_resources \in 0..MaxResources
    /\ next_index = 0
    /\ bindless_slots = {}
    /\ returned = <<>>
    /\ last_add = [op |-> "none", res |-> "none"]
    /\ adds = 0

(* BindlessManager::new: the default white texture takes index 0. *)
BindlessNew ==
    /\ bindless = "unbuilt"
    /\ \E texture_ok \in BOOLEAN, write_ok \in BOOLEAN :
         LET a == allocate_index(next_index, max_resources) IN
         IF ~texture_ok
         THEN /\ bindless' = "failed"
              /\ UNCHANGED <<next_index, bindless_slots>>
         ELSE IF ~a.ok
         THEN /\ bindless' = "failed"
              /\ next_index' = a.next
              /\ UNCHANGED bindless_slots
         ELSE /\ next_index' = a.next
              /\ IF a.index # 0 \/ ~write_ok
                 THEN bindless' = "failed" /\ UNCHANGED bindless_slots
                 ELSE /\ bindless' = "built"
                      /\ bindless_slots' = bindless_slots \cup
                                              {[binding |-> 0, index |-> a.index]}
    /\ UNCHANGED <<rendererVars, workerVars, meshVars, registryVars, descriptorVars, cacheVars, deferOpVars, shutdownVars, requestVars, max_resources,
                   returned, last_add, adds>>

(* add_sampled_image / add_storage_image / add_storage_buffer. *)
BindlessAdd ==
    /\ bindless = "built"
    /\ adds < MaxAdds
    /\ adds' = adds + 1
    /\ \E op \in DOMAIN AddBinding, write_ok \in BOOLEAN :
         LET a == allocate_index(next_index, max_resources) IN
         /\ next_index' = a.next
         /\ IF a.ok /\ write_ok
            THEN /\ bindless_slots' = bindless_slots \cup
                                         {[binding |-> AddBinding[op], index |-> a.index]}
                 /\ returned' = Append(returned, a.index)
                 /\ last_add' = [op |-> op, res |-> "ok"]
            ELSE /\ last_add' = [op |-> op, res |-> "err"]
                 /\ UNCHANGED <<bindless_slots, returned>>
    /\ UNCHANGED <<rendererVars, workerVars, meshVars, registryVars, descriptorVars, cacheVars, deferOpVars, shutdownVars, requestVars, bindless,
                   max_resources>>

BindlessNext ==
    \/ BindlessNew
    \/ BindlessAdd

BindlessSpec == BindlessInit /\ [][BindlessNext]_vars

(* --------------------------- worker helpers ---------------------------- *)
WorkerInit ==
    /\ RendererParked
    /\ BindlessIdle
    /\ DescriptorIdle
    /\ CacheIdle
    /\ DeferIdle
    /\ ShutdownIdle
    /\ RequestIdle
    /\ RegistryIdle
    /\ arg_worker_count \in 0..MaxCount
    /\ arg_descriptor_count \in 0..MaxCount
    /\ arg_buffer_count \in 0..MaxCount
    /\ arg_frame_index \in 0..MaxFrameIndex
    /\ validation = "none"
    /\ worker_index = -1

ValidateWorkerResources ==
    /\ validation = "none"
    /\ validation' = validate_worker_resources(arg_worker_count, arg_descriptor_count,
                                               arg_buffer_count)
    /\ UNCHANGED <<rendererVars, meshVars, bindlessVars, registryVars, descriptorVars, cacheVars, deferOpVars, shutdownVars, requestVars, arg_worker_count, arg_descriptor_count, arg_buffer_count,
                   arg_frame_index, worker_index>>

ComputeWorkerIndex ==
    /\ worker_index = -1
    /\ worker_index' = compute_worker_index(arg_worker_count, arg_frame_index)
    /\ UNCHANGED <<rendererVars, meshVars, bindlessVars, registryVars, descriptorVars, cacheVars, deferOpVars, shutdownVars, requestVars, arg_worker_count, arg_descriptor_count, arg_buffer_count,
                   arg_frame_index, validation>>

WorkerNext ==
    \/ ValidateWorkerResources
    \/ ComputeWorkerIndex

WorkerSpec == WorkerInit /\ [][WorkerNext]_vars

(* ============================== properties ============================== *)
(* The completion fence of slot i is signaled, or a submission that will
   signal it is still executing. *)
FenceWillSignal(i) ==
    \/ frame_syncs[i].in_flight
    \/ \E sub \in gpu : sub.slot = i - 1 /\ sub.epoch = frame_syncs[i].epoch

InflightWaitCanReturn == \A i \in 1..Len(frame_syncs) : FenceWillSignal(i)

(* The CPU is between the fence wait of the frame slot and its submission. *)
WritingSlot == pc \in {"update_uniform", "acquire", "record", "submit"}

(* C1: the uniform-buffer write and the command-buffer reset/recording of
   slot frame_index happen only after the wait on that slot's completion fence
   has returned, and never while a submission that used the slot is in flight. *)
C1_SlotWritesAfterFence ==
    WritingSlot => /\ fence_waited
                   /\ \A sub \in gpu : sub.slot # frame_index

(* C1 witness: a slot is being rewritten on its second use while the GPU is
   still executing the frame submitted before it. *)
C1_Witness ==
    /\ pc = "update_uniform"
    /\ Clean
    /\ calls > Len(frame_syncs)
    /\ gpu # {}

(* C2: each CPU write to material buffer frame_index mod worker_count happens
   only when no submission still executing on the GPU reads that buffer. *)
C2_MaterialWriteNotInFlight ==
    (pc = "record" /\ draw_items # <<>>) =>
        \A sub \in gpu : sub.draws > 0 => sub.worker # worker_index_for_frame(frame_index)

(* C3: an out-of-date acquire returns success without submitting or
   presenting and sets resize_pending, and the next render_frame gets past its
   wait for in-flight frames to perform the rebuild. *)
C3_AcquireOutOfDateThenRebuild ==
    /\ (pc = "idle" /\ outcome = "acquire_out_of_date") =>
           result = "ok" /\ ~submitted /\ ~presented /\ resize_pending
    /\ (pc = "wait_inflight" /\ prior_outcome = "acquire_out_of_date") =>
           InflightWaitCanReturn

(* C4: a superseded swapchain handle is destroyed only after a successful
   present or a fence wait that happened later than its deferral. *)
C4_DestroyAfterSafePoint == destroyed_swapchains \subseteq safe_swapchains

(* C5: with a zero-area pending extent render_frame returns success without
   fence wait, rebuild or submission and leaves resize_pending set; once a
   non-zero extent has arrived the next render_frame gets to perform the
   rebuild. *)
C5_ZeroAreaRetryLater ==
    /\ (pc = "idle" /\ outcome = "skipped") =>
           /\ result = "ok"
           /\ ~fence_waited /\ rebuilt = "none" /\ rebuild_log = <<>>
           /\ ~submitted /\ ~presented
           /\ resize_pending
    /\ (pc = "wait_inflight" /\ prior_outcome = "skipped") => InflightWaitCanReturn

(* C6: after a successful resize cycle the number of frame-sync slots equals
   the new swapchain image count and current_frame is 0 (until that frame
   completes), whatever they were before. *)
C6_ResizeResetsSlots ==
    rebuilt = "ok" =>
        /\ Len(frame_syncs) = swapchain_images
        /\ Len(frame_sync_ids) = swapchain_images
        /\ outcome # "completed" => current_frame = 0

(* C6 witness: a rebuild succeeded from a non-zero current_frame and changed
   the slot count. *)
C6_Witness ==
    /\ rebuilt = "ok"
    /\ outcome = "running"
    /\ pre_rebuild.current_frame # 0
    /\ pre_rebuild.slots # Len(frame_syncs)

(* C7: with no resize request and no error every render_frame call uses slot
   current_frame, gets past its fence wait and succeeds, and after the k-th
   call current_frame = k mod slot count. *)
C7_FrameCycle ==
    Clean =>
        /\ pc = "idle" =>
              /\ result = IF calls = 0 THEN "none" ELSE "ok"
              /\ calls > 0 => outcome = "completed"
              /\ current_frame = calls % Len(frame_syncs)
        /\ pc # "idle" =>
              /\ frame_index = current_frame
              /\ frame_index = (calls - 1) % Len(frame_syncs)
        /\ pc = "wait_fence" => FenceWillSignal(frame_index + 1)

(* C7 witness: current_frame has wrapped around after more successful calls
   than there are slots. *)
C7_Witness ==
    /\ Clean
    /\ pc = "idle"
    /\ result = "ok"
    /\ calls > Len(frame_syncs)
    /\ current_frame = 1

(* The creation order the rebuild is specified to follow. *)
CreationOrder ==
    << "image_views", "depth_buffer", "render_pass", "framebuffers", "frame_syncs",
       "command_buffers", "uniform_buffers", "descriptor_sets" >>

IsCreation(s) == s \in RangeOf(CreationOrder)

(* C8: the rebuild creates image views, depth buffer, render pass,
   framebuffers, frame syncs, command buffers, uniform buffers and frame
   descriptor bindings in that order, and an error at a step is the last thing
   the rebuild does. *)
C8_RebuildOrder ==
    LET created == SelectSeq(rebuild_log, IsCreation) IN
    /\ Len(created) <= Len(CreationOrder)
    /\ created = SubSeq(CreationOrder, 1, Len(created))
    /\ rebuilt = "ok" => created = CreationOrder
    /\ \A i \in 1..Len(rebuild_log) : rebuild_log[i] = "Err" => i = Len(rebuild_log)
    /\ rebuilt = "failed" <=> "Err" \in RangeOf(rebuild_log)

(* C8 witness: a rebuild failed at the command buffers, after the frame syncs
   and before the uniform buffers. *)
C8_Witness ==
    /\ rebuilt = "failed"
    /\ Len(rebuild_log) > 2
    /\ rebuild_log[Len(rebuild_log) - 1] = "command_buffers"

(* render_frame returned success without completing the frame. *)
Abandoned == pc = "idle" /\ result = "ok" /\ outcome # "completed"

(* C9 as stated: a frame is abandoned only with a resize pending, and never
   after a queue submission. *)
C9_AbandonBeforeSubmit == Abandoned => resize_pending /\ ~submitted

(* C9 amended: a frame is abandoned only with a resize pending, and a
   submission was made for it exactly when present reported out-of-date. *)
C9_AbandonOnlyOnResize ==
    Abandoned => /\ resize_pending
                 /\ submitted <=> outcome = "present_out_of_date"

(* C9 witness: a frame abandoned at present, after its submission. *)
C9_Witness == Abandoned /\ submitted /\ resize_pending

(* C10: an out-of-date acquire or present returns success with
   resize_pending set and current_frame unadvanced; any other acquire or
   present error is returned as an error. *)
C10_SurfaceInvalidationRecovered ==
    pc = "idle" =>
        /\ outcome \in {"acquire_out_of_date", "present_out_of_date"} =>
              result = "ok" /\ resize_pending /\ current_frame = frame_index
        /\ outcome \in {"acquire_error", "present_error"} => result = "err"

(* C10 witness: acquire reported out-of-date on a slot other than 0. *)
C10_Witness ==
    /\ pc = "idle"
    /\ outcome = "acquire_out_of_date"
    /\ frame_index # 0

(* C12: validate_worker_resources succeeds exactly when worker_count is 0, or
   descriptor_count and buffer_count both equal worker_count. *)
C12_ValidationIff ==
    validation # "none" =>
        (validation = "ok" <=>
            \/ arg_worker_count = 0
            \/ /\ arg_descriptor_count = arg_worker_count
               /\ arg_buffer_count = arg_worker_count)

(* C12 witness: the descriptor count matches and the buffer count does not,
   and validation fails. *)
C12_Witness ==
    /\ validation = "err"
    /\ arg_worker_count > 0
    /\ arg_descriptor_count = arg_worker_count
    /\ arg_buffer_count # arg_worker_count

(* C13: compute_worker_index is frame_index mod worker_count for
   worker_count > 0 and 0 for worker_count = 0, always below
   max(worker_count, 1). *)
C13_WorkerIndex ==
    worker_index # -1 =>
        /\ arg_worker_count > 0 => worker_index = arg_frame_index % arg_worker_count
        /\ arg_worker_count = 0 => worker_index = 0
        /\ worker_index < (IF arg_worker_count > 1 THEN arg_worker_count ELSE 1)

(* C13 witness: 4 workers, frame index 7 wraps to worker 3. *)
C13_Witness ==
    /\ arg_worker_count = 4
    /\ arg_frame_index = 7
    /\ worker_index = 3

(* C14: every constructed renderer passed validate_worker_resources, and the
   worker index render_frame chooses always addresses an existing material
   uniform buffer and an existing material descriptor set. *)
C14_WorkerResourcesExist ==
    /\ worker_count > 0
    /\ validate_worker_resources(worker_count, material_sets, material_buffers) = "ok"
    /\ pc \in {"record", "submit", "present"} =>
          /\ worker_index_for_frame(frame_index) < material_buffers
          /\ worker_index_for_frame(frame_index) < material_sets
    /\ outcome # "index_out_of_range"

(* C14 witness: a frame index beyond the worker count is being recorded with
   more than one worker. *)
C14_Witness ==
    /\ pc = "record"
    /\ worker_count > 1
    /\ frame_index >= worker_count

(* C11: no descriptor set is written while a submission still executing on
   the GPU references it: neither a material-texture set by set_mesh or
   register_mesh_handle, nor the frame and shadow sets of the slot being
   recorded. *)
C11_NoDescriptorWriteInFlight ==
    /\ hazard_writes = {}
    /\ pc = "record" => \A sub \in gpu : sub.slot # frame_index

(* C18: a register_mesh_handle call (or the construction) that met an
   exhausted descriptor pool returns an error. *)
C18_ExhaustionPropagated ==
    (last_op.op \in {"new", "register_mesh_handle"} /\ last_op.exhausted) =>
        last_op.res = "err"

(* C15: a constructed BindlessManager holds the default texture at index 0,
   and no add_* call ever returns index 0. *)
C15_IndexZeroReserved ==
    bindless = "built" =>
        /\ [binding |-> 0, index |-> 0] \in bindless_slots
        /\ \A i \in 1..Len(returned) : returned[i] # 0
        /\ \A slot \in bindless_slots : slot.index = 0 => slot.binding = 0

(* C15 witness: a full table after add_* calls of a built manager. *)
C15_Witness ==
    /\ bindless = "built"
    /\ Len(returned) > 1
    /\ next_index = max_resources
    /\ last_add.res = "err"

(* C16: an add_* call on a full table fails, writes no descriptor slot and
   leaves the index counter unchanged. *)
C16_FullTableFails ==
    [][(bindless = "built" /\ next_index = max_resources /\ adds' # adds) =>
          /\ last_add'.res = "err"
          /\ bindless_slots' = bindless_slots
          /\ next_index' = next_index
          /\ returned' = returned]_vars

(* C16 witness: two add_* calls in a row have failed on a full table. *)
C16_Witness ==
    /\ bindless = "built"
    /\ next_index = max_resources
    /\ last_add.res = "err"
    /\ adds >= Len(returned) + 2
    /\ Len(returned) = max_resources - 1

(* C17: the indices returned by add_* calls are strictly increasing, below
   max_resources, and at most max_resources - 1 calls succeed. *)
C17_BumpCounter ==
    bindless = "built" =>
        /\ \A i \in 1..Len(returned) : returned[i] < max_resources
        /\ \A i, j \in 1..Len(returned) : i < j => returned[i] < returned[j]
        /\ Len(returned) <= max_resources - 1
        /\ next_index <= max_resources

(* C17 witness: the three add_* operations have shared the counter and
   filled the table. *)
C17_Witness ==
    /\ bindless = "built"
    /\ Len(returned) = max_resources - 1
    /\ Len(returned) >= 2
    /\ \E a, b \in bindless_slots : a.binding # b.binding /\ a.index # 0 /\ b.index # 0

(* C19: cleanup_resource on a record with a live dependent fails with a
   warning, the native handle is not destroyed and the record stays
   registered; the teardown goes on to the resources after it. *)
C19_RefusedCleanupKeepsRecord ==
    registry_op.op = "rebuild" =>
        \A i \in 1..Len(cleanup_log) :
            LET e == cleanup_log[i] IN
            /\ e.dependents <=> e.res = "err"
            /\ e.res = "err" =>
                   /\ e.id \in DOMAIN resource_registry.records
                   /\ resource_registry.destroy_count[e.id] = 0
                   /\ e.kind = "render_pass" =>
                          \E j \in (i + 1)..Len(cleanup_log) :
                              cleanup_log[j].kind = "image_view"

(* C19 witness: a rebuild whose render-pass cleanup was refused ran to the
   end. *)
C19_Witness ==
    /\ registry_op = [op |-> "rebuild", res |-> "ok"]
    /\ \E i \in 1..Len(cleanup_log) :
           /\ cleanup_log[i].kind = "render_pass"
           /\ cleanup_log[i].res = "err"
           /\ cleanup_log[i].id \in DOMAIN resource_registry.records

(* C20: no native handle is destroyed twice, no registered record holds a
   destroyed handle, and after the shutdown cleanup() every handle ever
   registered has been destroyed exactly once. *)
C20_DestroyedExactlyOnce ==
    /\ \A id \in DOMAIN resource_registry.destroy_count :
           resource_registry.destroy_count[id] <= 1
    /\ \A id \in DOMAIN resource_registry.records :
           resource_registry.destroy_count[id] = 0
    /\ registry_op.op = "drop" =>
           /\ DOMAIN resource_registry.records = {}
           /\ \A id \in DOMAIN resource_registry.destroy_count :
                  resource_registry.destroy_count[id] = 1

(* C20 witness: a shutdown after a failed rebuild that followed refused
   cleanups, with one destruction reporting an error. *)
C20_Witness ==
    /\ registry_op = [op |-> "drop", res |-> "err"]
    /\ registry_rebuilds = MaxRebuilds
    /\ \E i \in 1..Len(cleanup_log) :
           cleanup_log[i].res = "err" /\ cleanup_log[i].kind = "image_view"
    /\ resource_ids.framebuffer_ids = <<>>

(* C21: frame_syncs and frame_sync_ids always have the same length, and all
   slots they hold were created together: all at startup or all by the same
   rebuild. *)
C21_SlotsRebuiltTogether ==
    /\ Len(frame_syncs) = Len(frame_sync_ids)
    /\ \A i \in 1..Len(frame_syncs) :
           /\ frame_syncs[i].epoch = frame_syncs[1].epoch
           /\ frame_sync_ids[i] = frame_syncs[i].epoch

(* C21 witness: a second rebuild has replaced the slots of the first with a
   larger set. *)
C21_Witness ==
    /\ rebuilt = "ok"
    /\ epoch >= 2
    /\ Len(frame_syncs) > pre_rebuild.slots
    /\ frame_syncs[1].epoch = epoch

(* C22: without a swapchain render_frame acquires no image and presents
   nothing: the frame targets the framebuffer of its own slot, no submission
   waits on an acquire semaphore, and every submitted frame completes and
   advances current_frame by one slot. *)
C22_HeadlessFrame ==
    swapchain = NullHandle =>
        /\ ~image_acquired
        /\ ~presented
        /\ pc \in {"record", "submit", "present"} => image_index = frame_index
        /\ \A sub \in gpu : ~sub.waits_acquire
        /\ (pc = "idle" /\ submitted) =>
               /\ outcome = "completed"
               /\ current_frame = (frame_index + 1) % Len(frame_syncs)

(* C22 witness: a headless renderer has recorded on slot 1 and wrapped its
   frame counter back to slot 0. *)
C22_Witness ==
    /\ swapchain = NullHandle
    /\ pc = "idle"
    /\ outcome = "completed"
    /\ submitted
    /\ frame_index = 1
    /\ current_frame = 0
    /\ gpu # {}

(* C23: every set handed out by allocate_texture_set or
   allocate_material_texture_set stays managed across next_frame calls, and a
   bind_material_textures call on it fails only if a descriptor write fails. *)
C23_TextureSetsSurviveNextFrame ==
    /\ DOMAIN handed_out \subseteq dynamic_sets
    /\ last_bind.handed_out => last_bind.res # "unmanaged"

(* C23 witness: a set handed out before the first next_frame call was bound
   after the last one. *)
C23_Witness ==
    /\ next_frames = MaxNextFrames
    /\ last_bind.frames = MaxNextFrames
    /\ last_bind.res = "ok"
    /\ last_bind.handed_out
    /\ handed_out[last_bind.set] = "allocate_texture_set"
    /\ Cardinality(DOMAIN handed_out) >= 2

(* The commands of the last submission whose mesh handle and material handle
   are both registered. *)
QualifyingCommand(c) ==
    c.mesh_handle \in DOMAIN mesh_registry /\ c.material_handle \in material_registry

(* C24: after submit_render_commands the draw list holds one item per
   qualifying command, in command order, and nothing else; with no
   qualifying command it holds one fallback item for the current mesh, if
   there is one. *)
C24_DrawListRebuilt ==
    last_op.op = "submit_render_commands" =>
        LET q == SelectSeq(submitted_commands, QualifyingCommand) IN
        IF q # <<>>
        THEN /\ Len(draw_items) = Len(q)
             /\ \A i \in 1..Len(q) :
                    /\ draw_items[i].key = mesh_registry[q[i].mesh_handle]
                    /\ draw_items[i].texture_set =
                           IF draw_items[i].key \in DOMAIN mesh_texture_sets
                           THEN mesh_texture_sets[draw_items[i].key]
                           ELSE DefaultTextureSet
        ELSE IF mesh # {}
        THEN Len(draw_items) = 1 /\ {draw_items[1].key} = mesh
        ELSE draw_items = <<>>

(* C24 witness: a two-command submission in the reverse of registration
   order, one mesh per command, replaced a longer-lived draw list. *)
C24_Witness ==
    /\ last_op.op = "submit_render_commands"
    /\ Len(submitted_commands) = 2
    /\ Len(draw_items) = 2
    /\ draw_items[1].key # draw_items[2].key
    /\ submitted_commands[1].mesh_handle > submitted_commands[2].mesh_handle

(* C25: a missing or unreadable cache file never fails the construction (the
   cache is created empty whenever the device creates it), a failed save at
   drop is only logged, and a created cache is destroyed exactly once, by
   its drop. *)
C25_CacheBestEffort ==
    /\ (/\ cache \in {"live", "failed"}
        /\ saves.count = 0
        /\ cache_file # {}
        /\ disk \in {"missing", "unreadable"}) =>
           /\ initial_data = "empty"
           /\ saves.res = "create_ok" => cache = "live"
    /\ cache = "failed" => saves.res = "create_err"
    /\ cache \in {"none", "live", "failed"} => cache_destroys = 0
    /\ cache = "destroyed" => cache_destroys = 1
    /\ (\E i \in 1..Len(cache_log) : cache_log[i] = "warn_save") => cache = "destroyed"

(* C25 witness: a cache created over an unreadable file was destroyed after
   its save at drop had failed. *)
C25_Witness ==
    /\ cache = "destroyed"
    /\ cache_destroys = 1
    /\ \E i, j \in 1..Len(cache_log) :
           cache_log[i] = "warn_load" /\ cache_log[j] = "warn_save"


(* C26: during a resize rebuild every cleanup_resource call targets a record
   with no live dependent in the registry, and every old object handed to it,
   the old render pass included, is destroyed during that rebuild. *)
C26_RebuildDestroysLeafFirst ==
    registry_op.op = "rebuild" =>
        \A i \in 1..Len(cleanup_log) :
            /\ ~cleanup_log[i].dependents
            /\ cleanup_log[i].res = "ok"
            /\ cleanup_log[i].id \notin DOMAIN resource_registry.records
            /\ resource_registry.destroy_count[cleanup_log[i].id] = 1

(* C27: whenever a render_frame call has returned (completed, abandoned or
   failed), the completion fence of every frame slot is signaled or has a
   pending submission that will signal it, so no later fence wait blocks
   forever. *)
C27_FencesSignalAfterReturn ==
    (pc = "idle" /\ outcome # "none") => \A i \in 1..Len(frame_syncs) : FenceWillSignal(i)

(* C28: whenever resize_pending is false, frame_syncs, command_buffers,
   uniform_buffers, framebuffers and the descriptor manager's frame sets all
   have the same non-zero length and current_frame is smaller than it. *)
C28_PerFrameLengthsAgree ==
    ~resize_pending =>
        /\ Len(frame_syncs) > 0
        /\ command_buffers = Len(frame_syncs)
        /\ uniform_buffers = Len(frame_syncs)
        /\ framebuffers = Len(frame_syncs)
        /\ frame_sets = Len(frame_syncs)
        /\ current_frame < Len(frame_syncs)

(* C28 witness: a rebuild to a smaller image count has succeeded, entered
   with a current_frame that the new slot count no longer holds. *)
C28_Witness ==
    /\ ~resize_pending
    /\ rebuilt = "ok"
    /\ pre_rebuild.slots > Len(frame_syncs)
    /\ pre_rebuild.current_frame >= Len(frame_syncs)

(* C29: when a step of the rebuild fails, render_frame returns that error with
   resize_pending still true and nothing submitted in that call, and the next
   render_frame that finds a non-zero extent goes to the rebuild, which
   restarts at its first step before any fence reset or submission. *)
C29_FailedRebuildRetried ==
    /\ []((pc = "idle" /\ outcome = "rebuild_failed") =>
              /\ result = "err"
              /\ resize_pending
              /\ ~submitted /\ ~presented
              /\ rebuilt = "failed"
              /\ rebuild_log # <<>> /\ rebuild_log[Len(rebuild_log)] = "Err")
    /\ [][(pc = "idle" /\ outcome = "rebuild_failed" /\ pc' # "idle") =>
              /\ pc' = "wait_inflight"
              /\ gpu' = gpu
              /\ frame_syncs' = frame_syncs]_vars
    /\ [][(pc = "wait_inflight" /\ prior_outcome = "rebuild_failed" /\ pc' # pc) =>
              /\ rebuild_log' # <<>> /\ rebuild_log'[1] = "swapchain"
              /\ gpu' = gpu]_vars

(* C29 witness: a rebuild had failed while recreating the frame syncs, which
   left none behind, and the call after it has rebuilt everything and is on
   its way to the frame. *)
C29_Witness ==
    /\ pc = "wait_fence"
    /\ rebuilt = "ok"
    /\ faults > 0
    /\ ~resize_pending
    /\ pre_rebuild.slots = 0
    /\ Len(frame_syncs) > 0

(* C30: after every deferral and every flush swapchain_cleanup_pending is
   true exactly when old_swapchain_handles is non-empty, and deferring a null
   handle changes neither of them. *)
C30_CleanupFlagMatchesList ==
    /\ [](swapchain_cleanup_pending <=> old_swapchain_handles # <<>>)
    /\ [][(defer_op'.op = "defer" /\ defer_op'.handle = NullHandle) =>
              /\ old_swapchain_handles' = old_swapchain_handles
              /\ swapchain_cleanup_pending' = swapchain_cleanup_pending]_vars

(* C30 witness: a null handle was deferred while two superseded swapchains
   were waiting for their flush. *)
C30_Witness ==
    /\ defer_op.op = "defer"
    /\ defer_op.handle = NullHandle
    /\ Len(old_swapchain_handles) = 2
    /\ swapchain_cleanup_pending

(* The swapchain handles deferred so far: every handle handed out after the
   first swapchain's. *)
DeferredSoFar == 2..(next_handle - 1)

(* C31: every deferred swapchain handle is destroyed exactly once: a handle
   on the list has not been destroyed and is on it once, each flush destroys
   exactly the handles on the list, every deferred handle is on the list or
   destroyed, and after the shutdown the list is empty and all are destroyed. *)
C31_DeferredDestroyedOnce ==
    /\ [](/\ RangeOf(old_swapchain_handles) \cap destroyed_swapchains = {}
          /\ \A i, j \in 1..Len(old_swapchain_handles) :
                 old_swapchain_handles[i] = old_swapchain_handles[j] => i = j
          /\ RangeOf(old_swapchain_handles) \cup destroyed_swapchains = DeferredSoFar
          /\ defer_op.op = "drop" =>
                 /\ old_swapchain_handles = <<>>
                 /\ destroyed_swapchains = DeferredSoFar)
    /\ [][destroyed_swapchains' # destroyed_swapchains =>
              /\ destroyed_swapchains' \ destroyed_swapchains = RangeOf(old_swapchain_handles)
              /\ old_swapchain_handles' = <<>>]_vars

(* C31 witness: the shutdown destroyed two handles that two resizes had
   deferred after an earlier flush had destroyed another. *)
C31_Witness ==
    /\ defer_op.op = "drop"
    /\ old_swapchain_handles = <<>>
    /\ Cardinality(destroyed_swapchains) = 3
    /\ defer_op.count = 4

(* The place of a statement in the shutdown log, 0 when it has not run. *)
ShutdownPos(step) ==
    IF \E i \in 1..Len(shutdown_log) : shutdown_log[i].step = step
    THEN CHOOSE i \in 1..Len(shutdown_log) : shutdown_log[i].step = step
    ELSE 0

(* C32: at shutdown nothing is released before the device-idle wait has
   returned; after it the deferred swapchains are flushed (while the swapchain
   is still there), then the registry is cleaned up, then the descriptor
   manager, the uniform buffers, the material buffers and the meshes are
   released, and the swapchain is released last. *)
C32_ShutdownOrder ==
    /\ pc # "dropped" => shutdown_log = <<>>
    /\ pc = "dropped" =>
          /\ ShutdownPos("device_wait_idle") = 1
          /\ \A i \in 2..Len(shutdown_log) : shutdown_log[i].waited
          /\ ShutdownPos("flush_old_swapchains") = 2
          /\ ShutdownPos("flush_old_swapchains") < ShutdownPos("registry_cleanup")
          /\ ShutdownPos("registry_cleanup") < ShutdownPos("descriptor_manager")
          /\ ShutdownPos("descriptor_manager") < ShutdownPos("uniform_buffers")
          /\ ShutdownPos("uniform_buffers") < ShutdownPos("material_buffers")
          /\ ShutdownPos("material_buffers") < ShutdownPos("model_renderer")
          /\ ShutdownPos("model_renderer") < ShutdownPos("mesh")
          /\ ShutdownPos("swapchain") = Len(shutdown_log)
          /\ \A i \in 1..(Len(shutdown_log) - 1) :
                 shutdown_log[i].swapchain = shutdown_log[1].swapchain
          /\ old_swapchain_handles = <<>> /\ ~swapchain_cleanup_pending
          /\ swapchain = NullHandle
          /\ uniform_buffers = 0 /\ material_buffers = 0 /\ frame_sets = 0
          /\ mesh = {} /\ draw_items = <<>>

(* C32 witness: a windowed renderer was dropped right after a failed rebuild,
   with the GPU idle, and its shutdown destroyed the swapchain that rebuild
   had deferred. *)
C32_Witness ==
    /\ pc = "dropped"
    /\ outcome = "rebuild_failed"
    /\ shutdown_log[1].swapchain # NullHandle
    /\ ~shutdown_log[1].busy
    /\ shutdown_log[1].swapchain - 1 \in destroyed_swapchains
    /\ old_swapchain_handles = <<>>

(* C33: no submission signals a slot's render-finished semaphore while its
   previous signal has not been consumed by a present, and no submission waits
   on a slot's acquire semaphore that no acquire has signaled, windowed or
   headless. *)
C33_SemaphoresPaired ==
    \A i \in 1..Len(frame_syncs) :
        /\ frame_syncs[i].render_finished # "resignaled"
        /\ frame_syncs[i].image_available # "waited_unsignaled"

(* C34: the request_swapchain_resize calls made between two render_frame
   calls leave resize_pending set and the extent of the last one pending; only
   the first of them can wait for device idle, and it does so exactly when no
   resize was pending before it; the next render_frame answers the whole batch
   with one pass through the rebuild (none when headless), or skips on a
   zero-area extent. *)
C34_RequestsCoalesce ==
    /\ [](request_batch # <<>> =>
              /\ pc = "idle"
              /\ resize_pending
              /\ pending_extent = request_batch[Len(request_batch)].extent
              /\ \A i \in 2..Len(request_batch) : ~request_batch[i].waited)
    /\ [][(request_batch = <<>> /\ request_batch' # <<>>) =>
              /\ request_batch'[1].waited <=> ~resize_pending
              /\ request_batch'[1].waited => gpu = {}]_vars
    /\ [][(request_batch # <<>> /\ request_batch' = <<>>) =>
              IF ZeroArea(pending_extent)
              THEN pc' = "idle" /\ outcome' = "skipped" /\ resize_pending'
              ELSE pc' = "wait_inflight"]_vars
    /\ [][(pc = "wait_inflight" /\ pc' # pc) =>
              /\ Cardinality({i \in 1..Len(rebuild_log') : rebuild_log'[i] = "swapchain"}) =
                     (IF swapchain = NullHandle THEN 0 ELSE 1)
              /\ rebuilt' \in {"ok", "skipped"} => ~resize_pending']_vars

(* C34 witness: two requests with different extents were made in a row on a
   renderer with no resize pending; the first waited for device idle. *)
C34_Witness ==
    /\ Len(request_batch) = 2
    /\ request_batch[1].waited
    /\ request_batch[1].extent # request_batch[2].extent
    /\ ~ZeroArea(pending_extent)
    /\ calls = 0 /\ outcome = "completed"

(* DescriptorManager::shadow_set: the set of the given frame slot, when the
   manager holds one (the Option as a set of at most one element). *)
shadow_set(sets, index) == IF index < sets THEN {index} ELSE {}

(* C35: the frame slot render_frame records with has a shadow descriptor
   set, so that the shadow map is bound at set 3 on every recorded frame, also
   after a rebuild changed the number of frame slots. *)
C35_ShadowSetPerFrame ==
    pc = "submit" => shadow_set(shadow_sets, frame_index) # {}

(* C36: in every draw item the bindless index of a texture slot is -1
   exactly when the slot's presence flag is false, and is otherwise an index
   of at least 1 handed out by the bindless manager. *)
C36_BindlessIndexMatchesFlag ==
    \A n \in 1..Len(draw_items) : \A i \in TextureSlots :
        IF i \in draw_items[n].texture_flags
        THEN draw_items[n].bindless_indices[i] >= 1
        ELSE draw_items[n].bindless_indices[i] = -1

(* C37: prepare_texture_set returns the default texture-array set exactly
   when the mesh has no texture of its own, and never writes a mesh's textures
   into the default set. *)
C37_DefaultSetNeverRebound ==
    last_op.key # "none" =>
        /\ last_op.flags = {} => last_op.prepared = {DefaultTextureSet}
        /\ last_op.prepared = {DefaultTextureSet} => last_op.flags = {}
        /\ DefaultTextureSet \notin last_op.written
        /\ last_op.prepared # {} /\ last_op.flags # {} => last_op.written = last_op.prepared

(* A textured mesh registered under a key whose set was the default one. *)
C37_Witness ==
    /\ last_op.op = "register_mesh_handle"
    /\ last_op.key = "cube"
    /\ last_op.flags # {}
    /\ last_op.written # {}
    /\ mesh_ops = 1
    /\ texture_sets_allocated = 1

(* C38: a textured set_mesh or register_mesh_handle under a key that
   already owns a set other than the default one reuses that set and takes
   nothing from the static pool. *)
C38_OwnedSetReused ==
    [][(/\ mesh_ops' # mesh_ops
        /\ last_op'.op \in {"set_mesh", "register_mesh_handle"}
        /\ last_op'.flags # {}
        /\ last_op'.key \in DOMAIN mesh_texture_sets
        /\ mesh_texture_sets[last_op'.key] # DefaultTextureSet) =>
           /\ last_op'.prepared = {mesh_texture_sets[last_op'.key]}
           /\ texture_sets_allocated' = texture_sets_allocated]_vars

(* C39: a set_mesh call that fails, at the mesh upload or at the texture
   descriptor update, leaves the draw list, the mesh registry, the current
   mesh and both per-mesh maps as they were. *)
C39_FailedSetMeshChangesNothing ==
    [][(/\ mesh_ops' # mesh_ops
        /\ last_op'.op = "set_mesh"
        /\ last_op'.failed # "none") =>
           UNCHANGED <<draw_items, mesh_registry, mesh, mesh_texture_sets,
                       mesh_texture_flags>>]_vars
====
